---- MODULE Spec2Model ----
(***************************************************************************)
(* AWS Signature Version 4 signer of buckerio (src/src/buckerio/auth.py).  *)
(*                                                                         *)
(* A Python str is a sequence of one-character strings.  A digest (the     *)
(* output of hashlib / hmac) is one element of such a sequence: a token    *)
(* that names the function and the message it was computed from, so two    *)
(* digests are equal exactly when function, key and message are equal.     *)
(* A Python dict is a sequence of <<key, value>> pairs with distinct keys, *)
(* in insertion order.                                                     *)
(***************************************************************************)
EXTENDS Integers, Sequences, FiniteSets, TLC

VARIABLES access_key, secret_key, region, clock, call, earlier, threads, api

vars == <<access_key, secret_key, region, clock, call, earlier, threads, api>>

-----------------------------------------------------------------------------
(* Characters: code points, str.lower, str.upper, str.strip, quote.        *)

NL == "\n"

TAB == "\t"

\* Printable ASCII from "#" (35) to "[" (91).
AsciiLow == <<"#", "$", "%", "&", "'", "(", ")", "*", "+", ",", "-", ".", "/",
              "0", "1", "2", "3", "4", "5", "6", "7", "8", "9",
              ":", ";", "<", "=", ">", "?", "@",
              "A", "B", "C", "D", "E", "F", "G", "H", "I", "J", "K", "L", "M",
              "N", "O", "P", "Q", "R", "S", "T", "U", "V", "W", "X", "Y", "Z",
              "[">>

\* Printable ASCII from "a" (97) to "~" (126).
AsciiHigh == <<"a", "b", "c", "d", "e", "f", "g", "h", "i", "j", "k", "l", "m",
               "n", "o", "p", "q", "r", "s", "t", "u", "v", "w", "x", "y", "z",
               "{", "|", "}", "~">>

CodePoints == [i \in 35..91 |-> AsciiLow[i - 34]] @@ [i \in 97..126 |-> AsciiHigh[i - 96]]
                @@ (9 :> TAB) @@ (10 :> NL) @@ (32 :> " ") @@ (33 :> "!")
                @@ (93 :> "]") @@ (94 :> "^") @@ (95 :> "_")

Chars == {CodePoints[i] : i \in DOMAIN CodePoints}

OrdTable == [c \in Chars |-> CHOOSE i \in DOMAIN CodePoints : CodePoints[i] = c]

\* ord(c)
Ord(c) == OrdTable[c]

\* chr(i)
Chr(i) == CodePoints[i]

\* An element of a str that is a digest token, not a character.
IsDigest(c) == c \notin Chars

IsUpper(c) == c \in Chars /\ Ord(c) >= 65 /\ Ord(c) <= 90

IsLower(c) == c \in Chars /\ Ord(c) >= 97 /\ Ord(c) <= 122

IsDigit(c) == c \in Chars /\ Ord(c) >= 48 /\ Ord(c) <= 57

\* str.isspace for the characters of the model.
IsSpace(c) == c \in {" ", TAB, NL}

LowerChar(c) == IF IsUpper(c) THEN Chr(Ord(c) + 32) ELSE c

UpperChar(c) == IF IsLower(c) THEN Chr(Ord(c) - 32) ELSE c

\* str.lower()
Lower(s) == [i \in 1..Len(s) |-> LowerChar(s[i])]

\* str.upper()
Upper(s) == [i \in 1..Len(s) |-> UpperChar(s[i])]

RECURSIVE LStrip(_)
LStrip(s) == IF s # <<>> /\ IsSpace(Head(s)) THEN LStrip(Tail(s)) ELSE s

RECURSIVE RStrip(_)
RStrip(s) == IF s # <<>> /\ IsSpace(s[Len(s)]) THEN RStrip(SubSeq(s, 1, Len(s) - 1)) ELSE s

\* str.strip()
Strip(s) == RStrip(LStrip(s))

RECURSIVE Concat(_)
\* "".join(parts), halving the list to keep the evaluation shallow
Concat(parts) ==
    IF parts = <<>> THEN <<>>
    ELSE IF Len(parts) = 1 THEN parts[1]
    ELSE LET h == Len(parts) \div 2
         IN  Concat(SubSeq(parts, 1, h)) \o Concat(SubSeq(parts, h + 1, Len(parts)))

RECURSIVE Join(_, _)
\* sep.join(parts)
Join(sep, parts) ==
    IF parts = <<>> THEN <<>>
    ELSE IF Len(parts) = 1 THEN parts[1]
    ELSE parts[1] \o sep \o Join(sep, Tail(parts))

\* str.split(sep) for a one-character separator: the pieces between successive separators
Split(s, sep) ==
    LET at      == {i \in 1..Len(s) : s[i] = sep}
        nth(k)  == IF k = 0 THEN 0
                   ELSE IF k > Cardinality(at) THEN Len(s) + 1
                   ELSE CHOOSE i \in at : Cardinality({j \in at : j < i}) = k - 1
    IN  [k \in 1..(Cardinality(at) + 1) |-> SubSeq(s, nth(k - 1) + 1, nth(k) - 1)]

StartsWith(s, prefix) == Len(s) >= Len(prefix) /\ SubSeq(s, 1, Len(prefix)) = prefix

\* The position where sub first occurs in s; 0 when it does not.
IndexOf(s, sub) ==
    LET at == {i \in 1..(Len(s) - Len(sub) + 1) : SubSeq(s, i, i + Len(sub) - 1) = sub}
    IN  IF at = {} THEN 0 ELSE CHOOSE i \in at : \A j \in at : i <= j

Contains(s, sub) == IndexOf(s, sub) > 0

\* a < b on str: the code points at the first position where they differ, else the lengths
StrLess(a, b) ==
    LET n    == IF Len(a) < Len(b) THEN Len(a) ELSE Len(b)
        diff == {i \in 1..n : a[i] # b[i]}
    IN  IF diff = {} THEN Len(a) < Len(b)
        ELSE LET i == CHOOSE i \in diff : \A j \in diff : i <= j
             IN  Ord(a[i]) < Ord(b[i])

HexDigits == <<"0", "1", "2", "3", "4", "5", "6", "7", "8", "9", "A", "B", "C", "D", "E", "F">>

\* "%XX" of the one UTF-8 byte of an ASCII character
PercentEncode(c) == <<"%", HexDigits[(Ord(c) \div 16) + 1], HexDigits[(Ord(c) % 16) + 1]>>

\* urllib.parse: _ALWAYS_SAFE, letters, digits and "_.-~"; a hex digest has only such characters
IsAlwaysSafe(c) == IsDigest(c) \/ IsUpper(c) \/ IsLower(c) \/ IsDigit(c) \/ c \in {"_", ".", "-", "~"}

\* urllib.parse.quote(s, safe): safe is a set of characters
Quote(s, safe) ==
    Concat([i \in 1..Len(s) |->
              IF IsAlwaysSafe(s[i]) \/ s[i] \in safe THEN <<s[i]>> ELSE PercentEncode(s[i])])

\* urllib.parse.quote_plus(s, safe): quote with " " safe, then " " replaced by "+"
QuotePlus(s, safe) ==
    LET q == Quote(s, safe \cup {" "})
    IN  [i \in 1..Len(q) |-> IF q[i] = " " THEN "+" ELSE q[i]]

\* A str literal as a sequence of its characters.
Str(lit) == [i \in 1..Len(lit) |-> SubSeq(lit, i, i)]

-----------------------------------------------------------------------------
(* hashlib and hmac.  A digest is a token built from what was hashed.      *)

RECURSIVE Flat(_)
\* The text of a str or bytes value, halving it to keep the evaluation shallow.
Flat(s) ==
    IF s = <<>> THEN ""
    ELSE IF Len(s) = 1 THEN s[1]
    ELSE LET h == Len(s) \div 2
         IN  Flat(SubSeq(s, 1, h)) \o Flat(SubSeq(s, h + 1, Len(s)))

\* str.encode("utf-8"): the characters of the model are ASCII, one byte each.
Encode(s) == s

\* hashlib.sha256(data).digest()
Sha256(data) == <<"sha256<" \o Flat(data) \o ">">>

\* hashlib.sha256(b"").hexdigest(), the one digest the model knows by value
EMPTY_SHA256 == "e3b0c44298fc1c149afbf4c8996fb92427ae41e4649b934ca495991b7852b855"

\* bytes.hex() of a digest, as hexdigest() returns it
Hex(digest) ==
    IF digest = Sha256(<<>>) THEN <<EMPTY_SHA256>> ELSE <<"hex<" \o Flat(digest) \o ">">>

\* hmac.new(key, msg, hashlib.sha256).digest()
Hmac(key, msg) == <<"hmac<" \o Flat(key) \o "|" \o Flat(msg) \o ">">>

-----------------------------------------------------------------------------
(* dict: <<key, value>> pairs with distinct keys, in insertion order.      *)

DictKeys(d) == [i \in 1..Len(d) |-> d[i][1]]

DictHas(d, k) == \E i \in 1..Len(d) : d[i][1] = k

DictGet(d, k) == d[CHOOSE i \in 1..Len(d) : d[i][1] = k][2]

\* d[k] = v: an existing key keeps its position, a new key goes last
DictSet(d, k, v) ==
    IF DictHas(d, k)
    THEN [i \in 1..Len(d) |-> IF d[i][1] = k THEN <<k, v>> ELSE d[i]]
    ELSE Append(d, <<k, v>>)

RECURSIVE DictUpdate(_, _)
\* {**d, **e}
DictUpdate(d, e) ==
    IF e = <<>> THEN d ELSE DictUpdate(DictSet(d, Head(e)[1], Head(e)[2]), Tail(e))

IsDict(d) == \A i, j \in 1..Len(d) : d[i][1] = d[j][1] => i = j

\* (k1, v1) < (k2, v2) on tuples of str
PairLess(p, q) == StrLess(p[1], q[1]) \/ (p[1] = q[1] /\ StrLess(p[2], q[2]))

RECURSIVE Sorted(_)
\* sorted(items) on a list of (str, str) tuples
Sorted(items) ==
    IF items = <<>> THEN <<>>
    ELSE LET m == CHOOSE i \in 1..Len(items) :
                    \A j \in 1..Len(items) :
                        ~PairLess(items[j], items[i]) /\ (items[j] = items[i] => i <= j)
         IN  <<items[m]>> \o Sorted(SubSeq(items, 1, m - 1) \o SubSeq(items, m + 1, Len(items)))

\* urllib.parse.urlencode(query, safe=safe) with the default quote_via=quote_plus
UrlEncode(query, safe) ==
    Join(<<"&">>, [i \in 1..Len(query) |->
                     QuotePlus(query[i][1], safe) \o <<"=">> \o QuotePlus(query[i][2], safe)])

\* Optional[T]
None == [is_none |-> TRUE, value |-> <<>>]

Some(v) == [is_none |-> FALSE, value |-> v]

-----------------------------------------------------------------------------
(* urllib.parse.urlparse                                                   *)

\* s.find(c, start) with 1-based positions; 0 when absent
Find(s, c, start) ==
    IF \E i \in start..Len(s) : s[i] = c
    THEN CHOOSE i \in start..Len(s) : s[i] = c /\ \A j \in start..(i - 1) : s[j] # c
    ELSE 0

\* s.rfind(c); 0 when absent
RFind(s, c) ==
    IF \E i \in 1..Len(s) : s[i] = c
    THEN CHOOSE i \in 1..Len(s) : s[i] = c /\ \A j \in (i + 1)..Len(s) : s[j] # c
    ELSE 0

From(s, i) == SubSeq(s, i, Len(s))

Upto(s, i) == SubSeq(s, 1, i)

IsSchemeChar(c) == IsUpper(c) \/ IsLower(c) \/ IsDigit(c) \/ c \in {"+", "-", "."}

\* urlsplit: the scheme, when the text before the first ":" is one
SplitScheme(url) ==
    LET i == Find(url, ":", 1)
    IN  IF i > 1 /\ (IsUpper(url[1]) \/ IsLower(url[1]))
             /\ \A j \in 1..(i - 1) : IsSchemeChar(url[j])
        THEN [scheme |-> Lower(Upto(url, i - 1)), rest |-> From(url, i + 1)]
        ELSE [scheme |-> <<>>, rest |-> url]

\* urlsplit: _splitnetloc(url, 2), the netloc ends at the first of "/?#"
SplitNetloc(rest) ==
    IF Len(rest) >= 2 /\ rest[1] = "/" /\ rest[2] = "/"
    THEN LET ends == {i \in 3..Len(rest) : rest[i] \in {"/", "?", "#"}}
             delim == IF ends = {} THEN Len(rest) + 1
                      ELSE CHOOSE i \in ends : \A j \in ends : i <= j
         IN  [netloc |-> SubSeq(rest, 3, delim - 1), rest |-> From(rest, delim)]
    ELSE [netloc |-> <<>>, rest |-> rest]

\* url.split(c, 1)
SplitOnce(s, c) ==
    LET i == Find(s, c, 1)
    IN  IF i = 0 THEN [before |-> s, after |-> <<>>]
        ELSE [before |-> Upto(s, i - 1), after |-> From(s, i + 1)]

\* urlparse: _splitparams, the ";params" of the last path segment
SplitParams(path) ==
    LET slash == RFind(path, "/")
        i == Find(path, ";", IF slash = 0 THEN 1 ELSE slash)
    IN  IF i = 0 THEN [before |-> path, after |-> <<>>]
        ELSE [before |-> Upto(path, i - 1), after |-> From(path, i + 1)]

\* Mutant: the query string and the fragment stay in the path.
UrlParse_unsplit(url) ==
    LET s == SplitScheme(url)
        n == SplitNetloc(s.rest)
    IN  [scheme |-> s.scheme, netloc |-> n.netloc, path |-> n.rest,
         params |-> <<>>, query |-> <<>>, fragment |-> <<>>]

\* urlparse(url): leading spaces and tab/newline characters are dropped first
UrlParse(url) ==
    LET clean  == LStrip(SelectSeq(url, LAMBDA c : c \notin {TAB, NL}))
        s      == SplitScheme(clean)
        n      == SplitNetloc(s.rest)
        f      == SplitOnce(n.rest, "#")
        q      == SplitOnce(f.before, "?")
        p      == SplitParams(q.before)
    IN  [scheme |-> s.scheme, netloc |-> n.netloc, path |-> p.before,
         params |-> p.after, query |-> q.after, fragment |-> f.after]

-----------------------------------------------------------------------------
(* datetime                                                                *)

\* datetime(year, month, day, hour, minute, second, tzinfo=...): tzinfo is "UTC", a fixed
\* offset of whole hours such as "+02:00", or "none" for a naive value
datetime(year, month, day, hour, minute, second, tzinfo) ==
    [year |-> year, month |-> month, day |-> day, hour |-> hour, minute |-> minute,
     second |-> second, tzinfo |-> tzinfo]

\* tzinfo.utcoffset(), in hours; a naive value is read as UTC
UtcOffset(tzinfo) ==
    CASE tzinfo = "+02:00" -> 2
      [] tzinfo = "-05:00" -> 0 - 5
      [] OTHER -> 0

\* calendar.monthrange(year, month)[1]
DaysIn(year, month) ==
    IF month \in {4, 6, 9, 11} THEN 30
    ELSE IF month # 2 THEN 31
    ELSE IF (year % 4 = 0 /\ year % 100 # 0) \/ year % 400 = 0 THEN 29
    ELSE 28

\* d.astimezone(timezone.utc): the same instant, read on the UTC calendar and clock
AsUtc(d) ==
    LET h == d.hour - UtcOffset(d.tzinfo)
        prev == IF d.day > 1 THEN [d EXCEPT !.day = d.day - 1]
                ELSE IF d.month > 1
                     THEN [d EXCEPT !.month = d.month - 1, !.day = DaysIn(d.year, d.month - 1)]
                ELSE [d EXCEPT !.year = d.year - 1, !.month = 12, !.day = 31]
        next == IF d.day < DaysIn(d.year, d.month) THEN [d EXCEPT !.day = d.day + 1]
                ELSE IF d.month < 12 THEN [d EXCEPT !.month = d.month + 1, !.day = 1]
                ELSE [d EXCEPT !.year = d.year + 1, !.month = 1, !.day = 1]
    IN  IF h < 0 THEN [prev EXCEPT !.hour = h + 24, !.tzinfo = "UTC"]
        ELSE IF h > 23 THEN [next EXCEPT !.hour = h - 24, !.tzinfo = "UTC"]
        ELSE [d EXCEPT !.hour = h, !.tzinfo = "UTC"]

RECURSIVE Digits(_, _)
\* "%0<w>d" % n
Digits(n, w) == IF w = 0 THEN <<>> ELSE Digits(n \div 10, w - 1) \o <<Chr(48 + (n % 10))>>

\* now.strftime("%Y%m%d")
DateStamp(now) == Digits(now.year, 4) \o Digits(now.month, 2) \o Digits(now.day, 2)

\* now.strftime("%Y%m%dT%H%M%SZ")
AmzDate(now) ==
    DateStamp(now) \o <<"T">> \o Digits(now.hour, 2) \o Digits(now.minute, 2)
        \o Digits(now.second, 2) \o <<"Z">>

\* str(n) for an int
RECURSIVE NatStr(_)
NatStr(n) == IF n < 10 THEN <<Chr(48 + n)>> ELSE NatStr(n \div 10) \o <<Chr(48 + (n % 10))>>

IntStr(n) == IF n < 0 THEN <<"-">> \o NatStr(0 - n) ELSE NatStr(n)

-----------------------------------------------------------------------------
(* class AWSV4Auth                                                         *)

ALGORITHM == Str("AWS4-HMAC-SHA256")

SERVICE == Str("s3")

_sign(key, msg) == Hmac(key, Encode(msg))

\* Mutant: the region and service stages of the chain exchanged.
_get_signature_key_swapped(date_stamp) ==
    LET k_date    == _sign(Encode(Str("AWS4") \o secret_key), date_stamp)
        k_service == _sign(k_date, SERVICE)
        k_region  == _sign(k_service, region)
        k_signing == _sign(k_region, Str("aws4_request"))
    IN  k_signing

_get_signature_key(date_stamp) ==
    LET k_date    == _sign(Encode(Str("AWS4") \o secret_key), date_stamp)
        k_region  == _sign(k_date, region)
        k_service == _sign(k_region, SERVICE)
        k_signing == _sign(k_service, Str("aws4_request"))
    IN  k_signing

\* Mutant: the whole path quoted at once, separators included.
_get_canonical_uri_whole(path) == Quote(path, {})

_get_canonical_uri(path) ==
    LET segments         == Split(path, "/")
        encoded_segments == [i \in 1..Len(segments) |-> Quote(segments[i], {})]
    IN  Join(<<"/">>, encoded_segments)

\* Mutant: the parameters encoded in insertion order.
_get_canonical_query_string_unsorted(query_params) ==
    IF query_params = <<>> THEN <<>>
    ELSE UrlEncode(query_params, {"-", "_", ".", "~"})

_get_canonical_query_string(query_params) ==
    IF query_params = <<>> THEN <<>>
    ELSE LET sorted_params == Sorted(query_params)
         IN  UrlEncode(sorted_params, {"-", "_", ".", "~"})

RECURSIVE Normalized_lstripped(_, _)
\* Mutant: only the leading whitespace of a value removed.
Normalized_lstripped(headers, acc) ==
    IF headers = <<>> THEN acc
    ELSE Normalized_lstripped(Tail(headers),
                              DictSet(acc, Lower(Head(headers)[1]), LStrip(Head(headers)[2])))

RECURSIVE Normalized(_, _)
\* {k.lower(): v.strip() for k, v in headers.items()}
Normalized(headers, acc) ==
    IF headers = <<>> THEN acc
    ELSE Normalized(Tail(headers), DictSet(acc, Lower(Head(headers)[1]), Strip(Head(headers)[2])))

\* Mutant: the signed-headers list built from the header names as the caller wrote them.
_get_canonical_headers_raw_names(headers) ==
    LET normalized     == Normalized(headers, <<>>)
        sorted_headers == Sorted(normalized)
    IN  [canonical_headers |->
            Concat([i \in 1..Len(sorted_headers) |->
                      sorted_headers[i][1] \o <<":">> \o sorted_headers[i][2] \o <<NL>>]),
         signed_headers |-> Join(<<";">>, DictKeys(Sorted(headers)))]

_get_canonical_headers(headers) ==
    LET normalized     == Normalized(headers, <<>>)
        sorted_headers == Sorted(normalized)
    IN  [canonical_headers |->
            Concat([i \in 1..Len(sorted_headers) |->
                      sorted_headers[i][1] \o <<":">> \o sorted_headers[i][2] \o <<NL>>]),
         signed_headers |-> Join(<<";">>, DictKeys(sorted_headers))]

\* Mutant: the digest of the empty default, whatever the data.
_sha256_hash_of_default(data) == Hex(Sha256(<<>>))

_sha256_hash(data) == Hex(Sha256(data))

\* A Python value that is a bytes or a str object.
Bytes(b) == [type |-> "bytes", data |-> b]

Text(t) == [type |-> "str", data |-> t]

\* hashlib.sha256(value).hexdigest(): a str raises TypeError (Strings must be encoded
\* before hashing)
Hexdigest(value) ==
    IF value.type = "str" THEN [raised |-> "TypeError"] ELSE [ret |-> _sha256_hash(value.data)]

\* sign_request(..., body): the body goes to self._sha256_hash as it is given, before
\* anything else is computed from it
SignRequestPayloadHash(body) == Hexdigest(body)

\* Mutant: the text handed to hashlib without encoding it.
sha256_hash_unencoded(data) == Hexdigest(data)

\* helpers.sha256_hash(data)
sha256_hash(data) ==
    Hexdigest(IF data.type = "str" THEN Bytes(Encode(data.data)) ELSE data)

\* S3Api.put_object(bucket, key, body): a str body is encoded, then request() passes
\* the bytes to sign_request
put_object(body) ==
    SignRequestPayloadHash(IF body.type = "str" THEN Bytes(Encode(body.data)) ELSE body)

\* Mutant: the headers left by the earlier call are carried into this one.
RequiredHeaders_shared(headers, amz_date, body) ==
    LET base == IF earlier.op = "sign_request" THEN DictUpdate(earlier.loc.ret, headers)
                ELSE headers
    IN  DictSet(DictSet(base, Str("x-amz-date"), amz_date),
                Str("x-amz-content-sha256"), _sha256_hash(body))

\* sign_request: the copy of the caller's headers with the two required headers added
RequiredHeaders(headers, amz_date, body) ==
    DictSet(DictSet(headers, Str("x-amz-date"), amz_date),
            Str("x-amz-content-sha256"), _sha256_hash(body))

\* Mutant: the signed-headers list joined before the canonical headers block.
CanonicalRequest_reordered(method, canonical_uri, canonical_query_string, canonical_headers, signed_headers, payload_hash) ==
    Join(<<NL>>, <<Upper(method), canonical_uri, canonical_query_string, signed_headers,
                   canonical_headers, payload_hash>>)

CanonicalRequest(method, canonical_uri, canonical_query_string, canonical_headers, signed_headers, payload_hash) ==
    Join(<<NL>>, <<Upper(method), canonical_uri, canonical_query_string, canonical_headers,
                   signed_headers, payload_hash>>)

\* Mutant: the default region written into the scope instead of the signer's region.
CredentialScope_default_region(date_stamp) ==
    date_stamp \o <<"/">> \o Str("us-east-1") \o <<"/">> \o SERVICE \o Str("/aws4_request")

CredentialScope(date_stamp) ==
    date_stamp \o <<"/">> \o region \o <<"/">> \o SERVICE \o Str("/aws4_request")

StringToSign(amz_date, credential_scope, canonical_request) ==
    Join(<<NL>>, <<ALGORITHM, amz_date, credential_scope,
                   _sha256_hash(Encode(canonical_request))>>)

\* hmac.new(signing_key, string_to_sign.encode("utf-8"), hashlib.sha256).hexdigest()
Signature(signing_key, string_to_sign) == Hex(Hmac(signing_key, Encode(string_to_sign)))

Authorization(credential_scope, signed_headers, signature) ==
    ALGORITHM \o Str(" Credential=") \o access_key \o <<"/">> \o credential_scope
        \o Str(", SignedHeaders=") \o signed_headers \o Str(", Signature=") \o signature

\* Mutant: no copy is made, the local name is bound to the caller's dict.
SignRequestObjects_aliased(headers, returned) == [caller |-> returned, local |-> returned]

\* headers = dict(headers): the entries of the two dict objects when sign_request returns,
\* the caller's and the copy that the local name is bound to and that is written to
SignRequestObjects(headers, returned) == [caller |-> headers, local |-> returned]

\* {..., **query_params}: the entries of the two dict objects when presign_url returns,
\* the caller's (None when None was passed) and the new dict presign_params
PresignUrlObjects(query_params, presign_params) ==
    [caller |-> query_params, local |-> presign_params]

\* sign_request from "# Build canonical request" on: the locals at the return statement,
\* and the returned dict as ret
SignRequestLocals(method, path, amz_date, date_stamp, hdrs, canonical_uri, canonical_query_string, ch, payload_hash) ==
    LET canonical_request ==
            CanonicalRequest(method, canonical_uri, canonical_query_string,
                             ch.canonical_headers, ch.signed_headers, payload_hash)
        credential_scope == CredentialScope(date_stamp)
        string_to_sign   == StringToSign(amz_date, credential_scope, canonical_request)
        signing_key      == _get_signature_key(date_stamp)
        signature        == Signature(signing_key, string_to_sign)
        authorization    == Authorization(credential_scope, ch.signed_headers, signature)
    IN  [path |-> path, amz_date |-> amz_date, date_stamp |-> date_stamp,
         canonical_uri |-> canonical_uri, canonical_query_string |-> canonical_query_string,
         canonical_headers |-> ch.canonical_headers, signed_headers |-> ch.signed_headers,
         payload_hash |-> payload_hash, canonical_request |-> canonical_request,
         credential_scope |-> credential_scope, string_to_sign |-> string_to_sign,
         signing_key |-> signing_key, signature |-> signature,
         ret |-> DictSet(hdrs, Str("Authorization"), authorization)]

\* sign_request(method, url, headers, body, query_params) with the clock reading now:
\* the locals at the return statement, and the returned dict as ret
sign_request(method, url, headers, body, query_params, now) ==
    LET qp     == IF query_params.is_none THEN <<>> ELSE query_params.value
        parsed == UrlParse(url)
        path   == IF parsed.path = <<>> THEN <<"/">> ELSE parsed.path
        hdrs   == RequiredHeaders(headers, AmzDate(now), body)
    IN  SignRequestLocals(method, path, AmzDate(now), DateStamp(now), hdrs,
                          _get_canonical_uri(path), _get_canonical_query_string(qp),
                          _get_canonical_headers(hdrs), _sha256_hash(body))

\* Mutant: the caller's parameters appended to the five entries, not merged by key.
PresignParams_appended(credential_scope, amz_date, expires_in, qp) ==
    << <<Str("X-Amz-Algorithm"), ALGORITHM>>,
       <<Str("X-Amz-Credential"), access_key \o <<"/">> \o credential_scope>>,
       <<Str("X-Amz-Date"), amz_date>>,
       <<Str("X-Amz-Expires"), IntStr(expires_in)>>,
       <<Str("X-Amz-SignedHeaders"), Str("host")>> >> \o qp

\* presign_params: the five X-Amz-* entries, then **query_params
PresignParams(credential_scope, amz_date, expires_in, qp) ==
    DictUpdate(<< <<Str("X-Amz-Algorithm"), ALGORITHM>>,
                  <<Str("X-Amz-Credential"), access_key \o <<"/">> \o credential_scope>>,
                  <<Str("X-Amz-Date"), amz_date>>,
                  <<Str("X-Amz-Expires"), IntStr(expires_in)>>,
                  <<Str("X-Amz-SignedHeaders"), Str("host")>> >>, qp)

\* presign_url from "# Build canonical request" on: the locals at the return statement,
\* and the returned str as ret
PresignUrlLocals(method, scheme, host, path, amz_date, date_stamp, credential_scope, presign_params, canonical_uri, canonical_query_string) ==
    LET canonical_headers      == Str("host:") \o host \o <<NL>>
        signed_headers         == Str("host")
        payload_hash           == Str("UNSIGNED-PAYLOAD")
        canonical_request ==
            CanonicalRequest(method, canonical_uri, canonical_query_string,
                             canonical_headers, signed_headers, payload_hash)
        string_to_sign == StringToSign(amz_date, credential_scope, canonical_request)
        signing_key    == _get_signature_key(date_stamp)
        signature      == Signature(signing_key, string_to_sign)
        final_params   == DictSet(presign_params, Str("X-Amz-Signature"), signature)
        query_string   == UrlEncode(final_params, {"-", "_", ".", "~"})
    IN  [path |-> path, host |-> host, amz_date |-> amz_date, date_stamp |-> date_stamp,
         canonical_uri |-> canonical_uri, canonical_query_string |-> canonical_query_string,
         canonical_headers |-> canonical_headers, signed_headers |-> signed_headers,
         payload_hash |-> payload_hash, canonical_request |-> canonical_request,
         credential_scope |-> credential_scope, string_to_sign |-> string_to_sign,
         signing_key |-> signing_key, signature |-> signature,
         presign_params |-> final_params,
         ret |-> scheme \o Str("://") \o host \o path \o <<"?">> \o query_string]

\* presign_url(method, url, expires_in, query_params, request_date) with the clock
\* reading now: the locals at the return statement, and the returned str as ret
presign_url(method, url, expires_in, query_params, request_date, now) ==
    LET qp     == IF query_params.is_none THEN <<>> ELSE query_params.value
        parsed == UrlParse(url)
        path   == IF parsed.path = <<>> THEN <<"/">> ELSE parsed.path
        when   == IF request_date.is_none THEN now ELSE request_date.value
        credential_scope == CredentialScope(DateStamp(when))
        presign_params   == PresignParams(credential_scope, AmzDate(when), expires_in, qp)
    IN  PresignUrlLocals(method, parsed.scheme, parsed.netloc, path, AmzDate(when),
                         DateStamp(when), credential_scope, presign_params,
                         _get_canonical_uri(path), _get_canonical_query_string(presign_params))

-----------------------------------------------------------------------------
(* exceptions.py, helpers.py, xml_parser.py                                *)

RECURSIVE LStripChar(_, _)
\* s.lstrip(c)
LStripChar(s, c) == IF s # <<>> /\ Head(s) = c THEN LStripChar(Tail(s), c) ELSE s

RECURSIVE RStripChar(_, _)
\* s.rstrip(c)
RStripChar(s, c) ==
    IF s # <<>> /\ s[Len(s)] = c THEN RStripChar(SubSeq(s, 1, Len(s) - 1), c) ELSE s

\* bool(value) of an Optional[str]: None and "" are false
Truthy(value) == ~value.is_none /\ value.value # <<>>

\* value or default
OrElse(value, default) == IF Truthy(value) THEN value.value ELSE default

\* BuckerioError(message, code) and its subclasses: the exception object that is raised
BuckerioError(message, code) == [raised |-> "BuckerioError", message |-> message, code |-> code]

BucketNotFoundError(bucket) ==
    [raised |-> "BucketNotFoundError",
     message |-> Str("Bucket '") \o bucket \o Str("' not found"), code |-> Str("NoSuchBucket")]

BucketAlreadyExistsError(bucket) ==
    [raised |-> "BucketAlreadyExistsError",
     message |-> Str("Bucket '") \o bucket \o Str("' already exists"),
     code |-> Str("BucketAlreadyExists")]

BucketNotEmptyError(bucket) ==
    [raised |-> "BucketNotEmptyError",
     message |-> Str("Bucket '") \o bucket \o Str("' is not empty"),
     code |-> Str("BucketNotEmpty")]

ObjectNotFoundError(bucket, key) ==
    [raised |-> "ObjectNotFoundError",
     message |-> Str("Object '") \o key \o Str("' not found in bucket '") \o bucket \o Str("'"),
     code |-> Str("NoSuchKey")]

AccessDeniedError(message) ==
    [raised |-> "AccessDeniedError", message |-> message, code |-> Str("AccessDenied")]

InvalidCredentialsError ==
    [raised |-> "InvalidCredentialsError",
     message |-> Str("Invalid access key or secret key"), code |-> Str("InvalidAccessKeyId")]

ConnectionError(message) ==
    [raised |-> "ConnectionError",
     message |-> Str("Connection failed: ") \o message, code |-> Str("ConnectionError")]

InvalidBucketNameError(bucket, reason) ==
    [raised |-> "InvalidBucketNameError",
     message |-> Str("Invalid bucket name '") \o bucket \o Str("': ") \o reason,
     code |-> Str("InvalidBucketName")]

ServerError(status_code, message) ==
    [raised |-> "ServerError",
     message |-> Str("Server error (") \o IntStr(status_code) \o Str("): ") \o message,
     code |-> Str("InternalError")]

\* The classes of exceptions.py: BuckerioError and its subclasses.
BuckerioErrors ==
    {"BuckerioError", "BucketNotFoundError", "BucketAlreadyExistsError", "BucketNotEmptyError",
     "ObjectNotFoundError", "AccessDeniedError", "InvalidCredentialsError", "ConnectionError",
     "InvalidBucketNameError", "ServerError"}

\* A call ended by raising.
Raised(result) == "raised" \in DOMAIN result

\* re: the positions of name where "$" matches, its end and before one final newline
DollarEnds(name) ==
    {Len(name)} \cup (IF name # <<>> /\ name[Len(name)] = NL THEN {Len(name) - 1} ELSE {})

\* re: [a-z0-9]
IsLowerOrDigit(c) == IsLower(c) \/ IsDigit(c)

\* re: [a-z0-9.-]
IsNameChar(c) == IsLowerOrDigit(c) \/ c \in {".", "-"}

\* helpers.is_valid_bucket_name(name): (is_valid, error_message)
is_valid_bucket_name(name) ==
    LET start == name # <<>> /\ IsLowerOrDigit(name[1])
        start_end == \E e \in DollarEnds(name) :
                        /\ e >= 2
                        /\ IsLowerOrDigit(name[1])
                        /\ IsLowerOrDigit(name[e])
                        /\ \A i \in 2..(e - 1) : IsNameChar(name[i])
        chars == \E e \in DollarEnds(name) : e >= 1 /\ \A i \in 1..e : IsNameChar(name[i])
        ip == \E e \in DollarEnds(name) :
                LET parts == Split(Upto(name, e), ".")
                IN  /\ Len(parts) = 4
                    /\ \A k \in 1..4 :
                          /\ Len(parts[k]) \in 1..3
                          /\ \A i \in 1..Len(parts[k]) : IsDigit(parts[k][i])
    IN  IF Len(name) < 3
        THEN [valid |-> FALSE, reason |-> Str("Bucket name must be at least 3 characters")]
        ELSE IF Len(name) > 63
        THEN [valid |-> FALSE, reason |-> Str("Bucket name must be at most 63 characters")]
        ELSE IF ~start
        THEN [valid |-> FALSE,
              reason |-> Str("Bucket name must start with a lowercase letter or number")]
        ELSE IF ~start_end
        THEN [valid |-> FALSE,
              reason |-> Str("Bucket name must end with a lowercase letter or number")]
        ELSE IF Contains(name, Str(".."))
        THEN [valid |-> FALSE, reason |-> Str("Bucket name cannot contain consecutive periods")]
        ELSE IF ~chars
        THEN [valid |-> FALSE,
              reason |-> Str("Bucket name can only contain lowercase letters, numbers, hyphens, and periods")]
        ELSE IF ip
        THEN [valid |-> FALSE,
              reason |-> Str("Bucket name cannot be formatted as an IP address")]
        ELSE [valid |-> TRUE, reason |-> <<>>]

\* helpers.normalize_key(key)
normalize_key(key) == LStripChar(key, "/")

\* helpers.parse_etag(etag)
parse_etag(etag) ==
    IF Len(etag) >= 1 /\ etag[1] = "\"" /\ etag[Len(etag)] = "\""
    THEN SubSeq(etag, 2, Len(etag) - 1)
    ELSE etag

\* helpers.content_type_from_key(key), for a key that mimetypes knows no type for
content_type_from_key(key) == Str("application/octet-stream")

\* xml_parser.parse_error(xml_content): (code, message). The content is the document
\* read from the bytes: whether it is well-formed, and the text of its Code and Message
\* elements (None when the element is absent or empty).
parse_error(xml_content) ==
    IF ~xml_content.wellformed
    THEN [code |-> Str("ParseError"), message |-> Str("Failed to parse error response")]
    ELSE [code |-> OrElse(xml_content.Code, Str("UnknownError")),
          message |-> OrElse(xml_content.Message, Str("Unknown error occurred"))]

-----------------------------------------------------------------------------
(* class S3Api (src/src/buckerio/api.py)                                   *)

\* The endpoint argument of the constructor.
EndpointArg == Str("http://h:9/")

\* S3Api(endpoint, access_key, secret_key, region) after __init__. _client is None or the
\* httpx.Client object, named by the number of its creation; open is the set of
\* httpx.Client objects that were created and not closed.
S3Api_init ==
    [endpoint |-> RStripChar(EndpointArg, "/"), _client |-> None, open |-> {}, created |-> 0]

\* Mutant: a new httpx.Client for every use.
S3Api_client_fresh(self) ==
    [self EXCEPT !._client = Some(self.created + 1),
                 !.open = self.open \cup {self.created + 1},
                 !.created = self.created + 1]

\* S3Api.client (property): the S3Api after the read
S3Api_client(self) ==
    IF self._client.is_none
    THEN [self EXCEPT !._client = Some(self.created + 1),
                      !.open = self.open \cup {self.created + 1},
                      !.created = self.created + 1]
    ELSE self

\* S3Api.close(), S3Api.__exit__()
S3Api_close(self) ==
    IF ~self._client.is_none
    THEN [self EXCEPT !.open = self.open \ {self._client.value}, !._client = None]
    ELSE self

\* S3Api._build_url(bucket, key)
_build_url(self, bucket, key) ==
    IF Truthy(bucket) /\ Truthy(key)
    THEN self.endpoint \o <<"/">> \o bucket.value \o <<"/">> \o LStripChar(key.value, "/")
    ELSE IF Truthy(bucket) THEN self.endpoint \o <<"/">> \o bucket.value
    ELSE self.endpoint

\* S3Api._get_host()
_get_host(self) == UrlParse(self.endpoint).netloc

\* Mutant: every error response raises the base class.
_handle_error_base(response, bucket, key) ==
    BuckerioError(parse_error(response.content).message, parse_error(response.content).code)

\* S3Api._handle_error(response, bucket, key): the exception it raises
_handle_error(response, bucket, key) ==
    LET status  == response.status_code
        code    == parse_error(response.content).code
        message == parse_error(response.content).message
    IN  IF status = 404 /\ (code = Str("NoSuchBucket") \/ (Truthy(bucket) /\ ~Truthy(key)))
        THEN BucketNotFoundError(OrElse(bucket, Str("unknown")))
        ELSE IF status = 404 /\ (code = Str("NoSuchKey") \/ Truthy(key))
        THEN ObjectNotFoundError(OrElse(bucket, Str("unknown")), OrElse(key, Str("unknown")))
        ELSE IF status = 403 /\ code = Str("AccessDenied")
        THEN AccessDeniedError(message)
        ELSE IF status = 403
        THEN InvalidCredentialsError
        ELSE IF status = 409
                  /\ (code = Str("BucketAlreadyExists") \/ code = Str("BucketAlreadyOwnedByYou"))
        THEN BucketAlreadyExistsError(OrElse(bucket, Str("unknown")))
        ELSE IF status = 409 /\ code = Str("BucketNotEmpty")
        THEN BucketNotEmptyError(OrElse(bucket, Str("unknown")))
        ELSE IF status >= 500
        THEN ServerError(status, message)
        ELSE BuckerioError(message, code)

\* self.client.request(...) as the server and the network answer it: the outcome is an
\* httpx.ConnectError, an httpx.TimeoutException, or a response.
Respond(outcome, bucket, key) ==
    IF outcome.kind = "ConnectError" THEN ConnectionError(outcome.text)
    ELSE IF outcome.kind = "TimeoutException"
    THEN ConnectionError(Str("Request timed out: ") \o outcome.text)
    ELSE IF outcome.response.status_code >= 400
    THEN _handle_error(outcome.response, bucket, key)
    ELSE [ret |-> outcome.response]

\* S3Api.request(method, bucket, key, body, headers, query_params) with the clock reading
\* now and the outcome of the HTTP exchange: the S3Api after the call, the requests that
\* were handed to the HTTP client, and the response returned or the exception raised
S3Api_request(self, method, bucket, key, body, headers, query_params, outcome, now) ==
    LET url == _build_url(self, bucket, key)
        request_headers == DictUpdate(<< <<Str("host"), _get_host(self)>> >>, headers)
        signed_headers ==
            sign_request(method, url, request_headers, body, query_params, now).ret
    IN  [api |-> S3Api_client(self),
         sent |-> << [method |-> method, url |-> url, headers |-> signed_headers,
                      content |-> body, params |-> query_params] >>,
         result |-> Respond(outcome, bucket, key)]

\* S3Api.presign_get(bucket, key, expires_in), S3Api.presign_put(bucket, key, expires_in)
S3Api_presign(self, method, bucket, key, expires_in, now) ==
    presign_url(method, _build_url(self, Some(bucket), Some(key)), expires_in, None, None, now).ret

-----------------------------------------------------------------------------
(* class Buckerio (src/src/buckerio/client.py): each method gives the      *)
(* S3Api after the call, the requests sent, and the result.                *)

\* The method returns value unless the request raised.
Returning(r, value) ==
    [api |-> r.api, sent |-> r.sent,
     result |-> IF Raised(r.result) THEN r.result ELSE [ret |-> value]]

\* try: ...; return True / except Exception: return False
Succeeded(r) == [api |-> r.api, sent |-> r.sent, result |-> [ret |-> ~Raised(r.result)]]

\* Buckerio.create_bucket(bucket)
Buckerio_create_bucket(self, bucket, outcome, now) ==
    IF ~is_valid_bucket_name(bucket).valid
    THEN [api |-> self, sent |-> <<>>,
          result |-> InvalidBucketNameError(bucket, is_valid_bucket_name(bucket).reason)]
    ELSE Returning(S3Api_request(self, Str("PUT"), Some(bucket), None, <<>>, <<>>, None,
                                 outcome, now), "None")

\* Buckerio.bucket_exists(bucket)
Buckerio_bucket_exists(self, bucket, outcome, now) ==
    Succeeded(S3Api_request(self, Str("HEAD"), Some(bucket), None, <<>>, <<>>, None,
                            outcome, now))

\* Buckerio.object_exists(bucket, key)
Buckerio_object_exists(self, bucket, key, outcome, now) ==
    Succeeded(S3Api_request(self, Str("HEAD"), Some(bucket), Some(normalize_key(key)),
                            <<>>, <<>>, None, outcome, now))

\* The etag header of a response, "" when it has none.
Etag(r) == IF Raised(r.result) \/ ~DictHas(r.result.ret.headers, Str("etag")) THEN <<>>
           ELSE DictGet(r.result.ret.headers, Str("etag"))

\* PutObjectResult(etag=parse_etag(etag))
PutObjectResult(r) == Returning(r, [etag |-> parse_etag(Etag(r))])

\* Buckerio.put_object(bucket, key, data) with bytes data and no content type or metadata
Buckerio_put_object(self, bucket, key, data, outcome, now) ==
    PutObjectResult(
        S3Api_request(self, Str("PUT"), Some(bucket), Some(normalize_key(key)), data,
                      << <<Str("content-type"), content_type_from_key(normalize_key(key))>> >>,
                      None, outcome, now))

\* GetObjectResult(content=response.content, etag=...)
GetObjectResult(r) ==
    Returning(r, [content |-> IF Raised(r.result) THEN <<>> ELSE r.result.ret.content,
                  etag |-> parse_etag(Etag(r))])

\* Buckerio.get_object(bucket, key)
Buckerio_get_object(self, bucket, key, outcome, now) ==
    GetObjectResult(S3Api_request(self, Str("GET"), Some(bucket), Some(normalize_key(key)),
                                  <<>>, <<>>, None, outcome, now))

\* Buckerio.delete_object(bucket, key)
Buckerio_delete_object(self, bucket, key, outcome, now) ==
    Returning(S3Api_request(self, Str("DELETE"), Some(bucket), Some(normalize_key(key)),
                            <<>>, <<>>, None, outcome, now), [deleted |-> TRUE])

\* Buckerio.head_object(bucket, key)
Buckerio_head_object(self, bucket, key, outcome, now) ==
    Returning(S3Api_request(self, Str("HEAD"), Some(bucket), Some(normalize_key(key)),
                            <<>>, <<>>, None, outcome, now), [key |-> normalize_key(key)])

\* Buckerio.presign_get(bucket, key, expires_in) for method "GET" and
\* Buckerio.presign_put(bucket, key, expires_in) for method "PUT"
Buckerio_presign(self, method, bucket, key, expires_in, now) ==
    [api |-> self, sent |-> <<>>,
     result |-> [ret |-> [url |-> S3Api_presign(self, method, bucket, normalize_key(key),
                                                expires_in, now),
                          expires_in |-> expires_in]]]

-----------------------------------------------------------------------------
(* The callers' inputs.                                                    *)

MaxHeaders == 2

MaxParams == 2

MaxSegments == 3

RECURSIVE Dicts(_, _, _)
\* The dicts of at most n entries with keys from K and values from V, in every insertion order.
Dicts(K, V, n) ==
    IF n = 0 THEN {<<>>}
    ELSE LET smaller == Dicts(K, V, n - 1)
             longest == {e \in smaller : Len(e) = n - 1}
         IN  smaller \cup
             UNION {{Append(d, <<k, v>>) : k \in {x \in K : ~DictHas(d, x)}, v \in V} :
                    d \in longest}

Methods == {Str("GET"), Str("put")}

Urls == {Str("http://h"), Str("https://h:9/b/a b"), Str("http://h/b/k/?v=1#f")}

Bodies == {<<>>, Str("hi")}

Payloads == {Bytes(body) : body \in Bodies} \cup {Text(body) : body \in Bodies}

Regions == {Str("us-east-1"), Str("eu-west-1")}

\* datetime.now(timezone.utc) at the successive clock readings
Instants ==
    << datetime(2024, 6, 15, 23, 59, 59, "UTC"),
       datetime(2024, 6, 16, 0, 0, 0, "UTC") >>

Now == Instants[clock]

SignHeaderNames == {Str("host"), Str("x-amz-date"), Str("X-Amz-Date")}

SignHeaderValues == {Str("h:9")}

SignParams ==
    {None, Some(<<>>), Some(<< <<Str("b"), Str("2 3")>>, <<Str("a"), Str("1")>> >>)}

HeaderNames == {Str("host"), Str("Host"), Str("Range"), Str("x-amz-date"), Str("a")}

HeaderValues == {Str(" x "), Str("a  b"), <<TAB, "b", " ", NL>>}

ParamKeys == {Str("a"), Str("b"), Str("B"), Str("k y")}

ParamValues == {Str("1"), Str("2"), Str("a+b/~ c")}

Segments == {<<>>, Str("b"), Str("a b"), Str("k~-_.%")}

RECURSIVE Paths(_)
\* The paths of at most n "/" separators.
Paths(n) ==
    IF n = 0 THEN Segments
    ELSE Paths(n - 1) \cup {p \o <<"/">> \o g : p \in Paths(n - 1), g \in Segments}

PresignKeys == {Str("a"), Str("X-Amz-Date"), Str("X-Amz-Expires"), Str("X-Amz-Signature")}

PresignValues == {Str("v 1")}

Expiries == {3600, 0}

RequestDates ==
    {None,
     Some(datetime(2024, 6, 15, 12, 0, 0, "UTC"))}

-----------------------------------------------------------------------------
(* The state: one signer, the clock, and the last call with its arguments  *)
(* as the caller holds them after the call, its locals and its result.     *)

NoCall == [op |-> "none"]

Threads == {1, 2}

\* A thread that is not in a call of the signer.
IdleThread == [pc |-> "idle"]

\* A datetime that no clock reading gives.
NoInstant == datetime(0, 0, 0, 0, 0, 0, "UTC")

\* The local names of a call that has bound none of them yet.
NoLocals ==
    [now |-> NoInstant, headers |-> <<>>, signed_headers |-> <<>>, canonical_request |-> <<>>,
     credential_scope |-> <<>>, signature |-> <<>>]

Init ==
    /\ api = S3Api_init
    /\ threads = [frame |-> [t \in Threads |-> IdleThread], locals |-> [t \in Threads |-> NoLocals]]
    /\ access_key = Str("test-access")
    /\ secret_key = Str("test-secret")
    /\ region \in Regions
    /\ clock = 1
    /\ call = NoCall
    /\ earlier = NoCall

SignHeaderMaps == Dicts(SignHeaderNames, SignHeaderValues, MaxHeaders)

HeaderMaps == Dicts(HeaderNames, HeaderValues, MaxHeaders)

ParamMaps == Dicts(ParamKeys, ParamValues, MaxParams)

PresignParamMaps == {None} \cup {Some(d) : d \in Dicts(PresignKeys, PresignValues, MaxParams)}

AllPaths == Paths(MaxSegments)

Tick ==
    /\ clock < Len(Instants)
    /\ clock' = clock + 1
    /\ UNCHANGED <<access_key, secret_key, region, call, earlier, threads, api>>

GetCanonicalUri ==
    /\ call = NoCall
    /\ \E path \in AllPaths :
        call' = [op |-> "_get_canonical_uri", path |-> path, ret |-> _get_canonical_uri(path)]
    /\ UNCHANGED <<access_key, secret_key, region, clock, earlier, threads, api>>

GetCanonicalQueryString ==
    /\ call = NoCall
    /\ \E query_params \in ParamMaps :
        call' = [op |-> "_get_canonical_query_string", query_params |-> query_params,
                 ret |-> _get_canonical_query_string(query_params)]
    /\ UNCHANGED <<access_key, secret_key, region, clock, earlier, threads, api>>

GetCanonicalHeaders ==
    /\ call = NoCall
    /\ \E headers \in HeaderMaps :
        call' = [op |-> "_get_canonical_headers", headers |-> headers,
                 ret |-> _get_canonical_headers(headers)]
    /\ UNCHANGED <<access_key, secret_key, region, clock, earlier, threads, api>>

\* What the caller holds when sign_request has returned: the arguments as they are
\* then, the clock reading, and the locals of the call with its result.
SignRequestCall(method, url, headers, body, query_params, loc) ==
    [op |-> "sign_request", method |-> method, url |-> url, headers |-> headers,
     body |-> body, query_params |-> query_params, now |-> Now, loc |-> loc,
     after |-> [headers |-> SignRequestObjects(headers, loc.ret).caller,
                query_params |-> query_params]]

\* What the caller holds when presign_url has returned.
PresignUrlCall(method, url, expires_in, query_params, request_date, loc) ==
    [op |-> "presign_url", method |-> method, url |-> url, expires_in |-> expires_in,
     query_params |-> query_params, request_date |-> request_date, now |-> Now, loc |-> loc,
     after |-> [query_params |-> PresignUrlObjects(query_params, loc.presign_params).caller]]

\* A caller's sign_request call with arguments from the given sets.
SignRequestFrom(methods, urls, bodies, params, maps) ==
    /\ call = NoCall
    /\ \E method \in methods, url \in urls, body \in bodies, query_params \in params,
          headers \in maps :
        call' = SignRequestCall(method, url, headers, body, query_params,
                                sign_request(method, url, headers, body, query_params, Now))
    /\ UNCHANGED <<access_key, secret_key, region, clock, earlier, threads, api>>

\* A caller's presign_url call with arguments from the given sets.
PresignUrlFrom(methods, urls, expiries, params, dates) ==
    /\ call = NoCall
    /\ \E method \in methods, url \in urls, expires_in \in expiries, query_params \in params,
          request_date \in dates :
        call' = PresignUrlCall(method, url, expires_in, query_params, request_date,
                               presign_url(method, url, expires_in, query_params,
                                           request_date, Now))
    /\ UNCHANGED <<access_key, secret_key, region, clock, earlier, threads, api>>

\* The payload hash of a body given as bytes or as text, by the three ways to it.
HashPayload ==
    /\ call = NoCall
    /\ \E via \in {"sign_request", "put_object", "sha256_hash"}, data \in Payloads :
        call' = [op |-> "payload_hash", via |-> via, data |-> data,
                 loc |-> CASE via = "sign_request" -> SignRequestPayloadHash(data)
                           [] via = "put_object" -> put_object(data)
                           [] via = "sha256_hash" -> sha256_hash(data)]
    /\ UNCHANGED <<access_key, secret_key, region, clock, earlier, threads, api>>

SignRequest == SignRequestFrom(Methods, Urls, Bodies, SignParams, SignHeaderMaps)

PresignUrl == PresignUrlFrom(Methods, Urls, Expiries, PresignParamMaps, RequestDates)

\* The caller is done with the result of the call.
Return ==
    /\ call # NoCall
    /\ call' = NoCall
    /\ UNCHANGED <<access_key, secret_key, region, clock, earlier, threads, api>>

Next ==
    \/ Tick
    \/ GetCanonicalUri
    \/ GetCanonicalQueryString
    \/ GetCanonicalHeaders
    \/ HashPayload
    \/ SignRequest
    \/ PresignUrl
    \/ Return

Spec == Init /\ [][Next]_vars

\* The caller keeps the result of the call to compare it with a later one.
Remember ==
    /\ call # NoCall
    /\ earlier' = call
    /\ call' = NoCall
    /\ UNCHANGED <<access_key, secret_key, region, clock, threads, api>>

RepeatUrls == {Str("http://h/"), Str("https://h:9/b/a b")}

RepeatHeaderMaps ==
    {<<>>, << <<Str("host"), Str("h:9")>> >>,
     << <<Str("Host"), Str(" x ")>>, <<Str("x-amz-date"), Str("h:9")>> >>}

RepeatParams == {None, Some(<< <<Str("b"), Str("2 3")>>, <<Str("a"), Str("1")>> >>)}

RepeatSignRequest ==
    SignRequestFrom({Str("GET")}, RepeatUrls, Bodies, RepeatParams, RepeatHeaderMaps)

RepeatPresignUrl == PresignUrlFrom({Str("GET")}, RepeatUrls, {3600}, RepeatParams, RequestDates)

NextRepeat ==
    \/ Tick
    \/ RepeatSignRequest
    \/ RepeatPresignUrl
    \/ Remember

\* Calls on one signer, each result kept to be compared with the next call's.
SpecRepeat == Init /\ [][NextRepeat]_vars

\* Request dates that a caller of presign_url can inject: aware values in UTC and in
\* other zones, a naive value, and none.
ZonedDates ==
    {None,
     Some(datetime(2024, 6, 15, 12, 0, 0, "UTC")),
     Some(datetime(2024, 1, 1, 1, 0, 0, "+02:00")),
     Some(datetime(2024, 2, 29, 22, 30, 0, "-05:00")),
     Some(datetime(2024, 6, 15, 12, 0, 0, "none"))}

DatedSignRequest == SignRequestFrom(Methods, RepeatUrls, Bodies, {None}, RepeatHeaderMaps)

DatedPresignUrl == PresignUrlFrom(Methods, RepeatUrls, {3600}, {None}, ZonedDates)

NextDates ==
    \/ Tick
    \/ DatedSignRequest
    \/ DatedPresignUrl
    \/ Return

\* Calls that sign for the clock's instant or for an injected request date.
SpecDates == Init /\ [][NextDates]_vars

-----------------------------------------------------------------------------
(* Calls on one S3Api and on the Buckerio client that owns it.  The server *)
(* and the network choose the outcome of every HTTP exchange.              *)

MaxClients == 2

\* response.content as a document: not well-formed (an empty body is not), or with the
\* text of its Code and Message elements.
NoDocument == [wellformed |-> FALSE, Code |-> None, Message |-> None]

ErrorDocument(code) == [wellformed |-> TRUE, Code |-> code, Message |-> Some(Str("m"))]

\* An httpx.Response.
Response(status_code, content) ==
    [status_code |-> status_code, content |-> content,
     headers |-> << <<Str("etag"), <<"\"">> \o Str("e1") \o <<"\"">> >> >>]

Answered(status_code, content) == [kind |-> "response", response |-> Response(status_code, content)]

\* What can come of an exchange that a Buckerio method starts.
Outcomes ==
    {[kind |-> "ConnectError", text |-> Str("refused")],
     [kind |-> "TimeoutException", text |-> Str("timed out")],
     Answered(200, NoDocument),
     Answered(403, NoDocument),
     Answered(404, NoDocument),
     Answered(404, ErrorDocument(Some(Str("NoSuchBucket")))),
     Answered(409, ErrorDocument(Some(Str("BucketAlreadyExists")))),
     Answered(500, NoDocument)}

StatusCodes == {200, 399, 400, 403, 404, 409, 500, 503}

ErrorCodes ==
    {None, Some(Str("NoSuchBucket")), Some(Str("NoSuchKey")), Some(Str("AccessDenied")),
     Some(Str("BucketAlreadyExists")), Some(Str("BucketAlreadyOwnedByYou")),
     Some(Str("BucketNotEmpty")), Some(Str("SlowDown"))}

\* What can come of an exchange that S3Api.request starts: every status with every
\* error document.
ApiOutcomes ==
    {[kind |-> "ConnectError", text |-> Str("refused")],
     [kind |-> "TimeoutException", text |-> Str("timed out")]}
        \cup {Answered(status_code, NoDocument) : status_code \in StatusCodes}
        \cup {Answered(status_code, ErrorDocument(code)) :
                status_code \in StatusCodes, code \in ErrorCodes}

BucketName == Str("bkt")

BucketNames ==
    {Str("ab"), Str("abc"), Str("a.b-1"), Str("abc") \o <<NL>>, Str("Abc"), Str("a_b"),
     Str("abc-"), Str("-ab"), Str("a..b"), Str("1.2.3.4"), Str("1.2.3"),
     [i \in 1..63 |-> "a"], [i \in 1..64 |-> "a"]}

Keys == {Str("k"), Str("d/k"), Str("/k"), <<>>, Str("/"), Str("a?v"), Str("a b")}

ClientExpiries == {3600, 7200, 60, 0}

\* An HTTP client is open, or one more may be created.
CanRequest == ~api._client.is_none \/ api.created < MaxClients

\* The caller holds the result of a call, and the S3Api is as the call left it.
Called(op, args, outcome, r) ==
    /\ call' = [op |-> op, args |-> args, outcome |-> outcome, sent |-> r.sent,
                result |-> r.result]
    /\ api' = r.api
    /\ UNCHANGED <<access_key, secret_key, region, clock, earlier, threads>>

\* S3Api.request called directly.
Request ==
    /\ call = NoCall
    /\ CanRequest
    /\ \E bucket \in {None, Some(<<>>), Some(BucketName)},
          key \in {None, Some(<<>>), Some(Str("k"))}, outcome \in ApiOutcomes :
        Called("request", [bucket |-> bucket, key |-> key], outcome,
               S3Api_request(api, Str("GET"), bucket, key, <<>>, <<>>, None, outcome, Now))

CreateBucket ==
    /\ call = NoCall
    /\ CanRequest
    /\ \E bucket \in BucketNames, outcome \in Outcomes :
        Called("create_bucket", [bucket |-> bucket], outcome,
               Buckerio_create_bucket(api, bucket, outcome, Now))

BucketExists ==
    /\ call = NoCall
    /\ CanRequest
    /\ \E outcome \in Outcomes :
        Called("bucket_exists", [bucket |-> BucketName], outcome,
               Buckerio_bucket_exists(api, BucketName, outcome, Now))

ObjectExists ==
    /\ call = NoCall
    /\ CanRequest
    /\ \E key \in Keys, outcome \in Outcomes :
        Called("object_exists", [bucket |-> BucketName, key |-> key], outcome,
               Buckerio_object_exists(api, BucketName, key, outcome, Now))

PutObject ==
    /\ call = NoCall
    /\ CanRequest
    /\ \E key \in Keys, outcome \in Outcomes :
        Called("put_object", [bucket |-> BucketName, key |-> key], outcome,
               Buckerio_put_object(api, BucketName, key, Str("hi"), outcome, Now))

GetObject ==
    /\ call = NoCall
    /\ CanRequest
    /\ \E key \in Keys, outcome \in Outcomes :
        Called("get_object", [bucket |-> BucketName, key |-> key], outcome,
               Buckerio_get_object(api, BucketName, key, outcome, Now))

DeleteObject ==
    /\ call = NoCall
    /\ CanRequest
    /\ \E key \in Keys, outcome \in Outcomes :
        Called("delete_object", [bucket |-> BucketName, key |-> key], outcome,
               Buckerio_delete_object(api, BucketName, key, outcome, Now))

HeadObject ==
    /\ call = NoCall
    /\ CanRequest
    /\ \E key \in Keys, outcome \in Outcomes :
        Called("head_object", [bucket |-> BucketName, key |-> key], outcome,
               Buckerio_head_object(api, BucketName, key, outcome, Now))

\* No exchange takes place when a URL is presigned.
NoOutcome == [kind |-> "none"]

PresignGet ==
    /\ call = NoCall
    /\ \E key \in Keys, expires_in \in ClientExpiries :
        Called("presign_get", [bucket |-> BucketName, key |-> key, expires_in |-> expires_in],
               NoOutcome, Buckerio_presign(api, Str("GET"), BucketName, key, expires_in, Now))

PresignPut ==
    /\ call = NoCall
    /\ \E key \in Keys, expires_in \in ClientExpiries :
        Called("presign_put", [bucket |-> BucketName, key |-> key, expires_in |-> expires_in],
               NoOutcome, Buckerio_presign(api, Str("PUT"), BucketName, key, expires_in, Now))

\* Buckerio.close(), Buckerio.__exit__(): self._api.close()
Close ==
    /\ call = NoCall
    /\ call' = [op |-> "close", args |-> <<>>, outcome |-> NoOutcome, sent |-> <<>>,
                result |-> [ret |-> "None"]]
    /\ api' = S3Api_close(api)
    /\ UNCHANGED <<access_key, secret_key, region, clock, earlier, threads>>

NextApi ==
    \/ Request
    \/ Close
    \/ Return

\* Calls of S3Api.request, with every status and error document the server can
\* answer, and close().
SpecApi == Init /\ [][NextApi]_vars

NextBuckets ==
    \/ CreateBucket
    \/ Return

\* Calls of Buckerio.create_bucket.
SpecBuckets == Init /\ [][NextBuckets]_vars

NextExists ==
    \/ BucketExists
    \/ ObjectExists
    \/ Return

\* Calls of Buckerio.bucket_exists and Buckerio.object_exists.
SpecExists == Init /\ [][NextExists]_vars

NextObjects ==
    \/ PutObject
    \/ GetObject
    \/ DeleteObject
    \/ HeadObject
    \/ Return

\* Calls of the object-level methods of one Buckerio client.
SpecObjects == Init /\ [][NextObjects]_vars

NextPresign ==
    \/ PresignGet
    \/ PresignPut
    \/ Return

\* Calls of Buckerio.presign_get and Buckerio.presign_put.
SpecPresign == Init /\ [][NextPresign]_vars

-----------------------------------------------------------------------------
(* Buckerio.list_all_objects: a generator. Its frame is the call record:   *)
(* pc is where it stands, continuation_token and result are its local      *)
(* names, pos counts the objects of result already yielded; pages, sent     *)
(* and yielded record what it received, sent and yielded so far.           *)

MaxPages == 3

\* Mutant: the continuation token is left out of the request.
list_objects_v2_params_untokened(prefix, continuation_token) ==
    IF Truthy(prefix)
    THEN << <<Str("list-type"), Str("2")>>, <<Str("prefix"), prefix.value>> >>
    ELSE << <<Str("list-type"), Str("2")>> >>

\* S3Api.list_objects_v2: the query parameters of the request, with the default max_keys
\* and no delimiter
list_objects_v2_params(prefix, continuation_token) ==
    LET listed == << <<Str("list-type"), Str("2")>> >>
        prefixed == IF Truthy(prefix) THEN DictSet(listed, Str("prefix"), prefix.value)
                    ELSE listed
    IN  IF Truthy(continuation_token)
        THEN DictSet(prefixed, Str("continuation-token"), continuation_token.value)
        ELSE prefixed

\* xml_parser.parse_list_objects_v2(xml_content): the ListObjectsResult, or the
\* ET.ParseError raised. The content is the document read from the bytes: whether it is
\* well-formed, the text of its IsTruncated and NextContinuationToken elements (None when
\* the element is absent or empty) and the text of the Key of each Contents element.
\* Of an Object only the key is kept.
parse_list_objects_v2(xml_content) ==
    IF ~xml_content.wellformed
    THEN [raised |-> "ParseError", message |-> Str("no element found"), code |-> <<>>]
    ELSE LET keys == SelectSeq(xml_content.Contents, Truthy)
         IN  [ret |-> [objects |-> [i \in 1..Len(keys) |-> [key |-> keys[i].value]],
                       is_truncated |-> xml_content.IsTruncated = Some(Str("true")),
                       next_continuation_token |-> xml_content.NextContinuationToken]]

\* return parse_list_objects_v2(response.content)
ListObjectsResult(r) ==
    [api |-> r.api, sent |-> r.sent,
     result |-> IF Raised(r.result) THEN r.result
                ELSE parse_list_objects_v2(r.result.ret.content)]

\* Buckerio.list_objects(bucket, prefix, continuation_token=...)
Buckerio_list_objects(self, bucket, prefix, continuation_token, outcome, now) ==
    ListObjectsResult(
        S3Api_request(self, Str("GET"), Some(bucket), None, <<>>, <<>>,
                      Some(list_objects_v2_params(prefix, continuation_token)), outcome, now))

\* A ListBucketResult document.
ListDocument(is_truncated, next_token, contents) ==
    [wellformed |-> TRUE, Code |-> None, Message |-> None, IsTruncated |-> is_truncated,
     NextContinuationToken |-> next_token, Contents |-> contents]

\* The Key texts of the Contents of a page: three elements, one with an empty Key.
PageKeys == <<Some(Str("a")), None, Some(Str("b"))>>

\* Pages that are truncated, with a token or without, with Contents or without.
TruncatedPages ==
    {ListDocument(Some(Str("true")), n, PageKeys) : n \in {None, Some(Str("t1")), Some(Str("t2"))}}
      \cup {ListDocument(Some(Str("true")), Some(Str("t1")), <<>>)}

\* Pages that are not: IsTruncated is false or absent.
LastPages ==
    {ListDocument(t, n, c) : t \in {Some(Str("false")), None}, n \in {None, Some(Str("t1"))},
                             c \in {<<>>, PageKeys}}

\* What the server can answer to a listing request: a page, a body that is no XML, an
\* error.
ListOutcomes ==
    {Answered(200, page) : page \in TruncatedPages \cup LastPages}
      \cup {Answered(200, NoDocument), Answered(500, NoDocument)}

ListPrefixes == {None, Some(Str("d/"))}

\* The value standing for the local name result before it is bound.
NoPage == [objects |-> <<>>, is_truncated |-> FALSE, next_continuation_token |-> None]

\* list_all_objects(bucket, prefix) is called: the generator is created, none of its
\* code has run.
ListAllObjects ==
    /\ call = NoCall
    /\ \E prefix \in ListPrefixes :
        call' = [op |-> "list_all_objects", args |-> [bucket |-> BucketName, prefix |-> prefix],
                 pc |-> "request", continuation_token |-> None, result |-> [ret |-> NoPage],
                 pos |-> 0, pages |-> <<>>, sent |-> <<>>, yielded |-> <<>>]
    /\ UNCHANGED <<access_key, secret_key, region, clock, earlier, threads, api>>

\* The generator holds the result r of its list_objects call, or ends with what the call
\* raised.
Listed(r) ==
    /\ call' = [call EXCEPT !.sent = call.sent \o r.sent,
                            !.result = r.result,
                            !.pos = 0,
                            !.pages = IF Raised(r.result) THEN call.pages
                                      ELSE Append(call.pages, r.result.ret),
                            !.pc = IF Raised(r.result) THEN "raised" ELSE "yield"]
    /\ api' = r.api
    /\ UNCHANGED <<access_key, secret_key, region, clock, earlier, threads>>

\* result = self.list_objects(bucket=bucket, prefix=prefix,
\*                            continuation_token=continuation_token)
ListPage ==
    /\ call.op = "list_all_objects"
    /\ call.pc = "request"
    /\ Len(call.pages) < MaxPages
    /\ CanRequest
    /\ \E outcome \in ListOutcomes :
        Listed(Buckerio_list_objects(api, call.args.bucket, call.args.prefix,
                                     call.continuation_token, outcome, Now))

\* yield from result.objects: the next object is handed to the consumer
YieldObject ==
    /\ call.op = "list_all_objects"
    /\ call.pc = "yield"
    /\ call.pos < Len(call.result.ret.objects)
    /\ call' = [call EXCEPT !.pos = call.pos + 1,
                            !.yielded = Append(call.yielded,
                                               call.result.ret.objects[call.pos + 1])]
    /\ UNCHANGED <<access_key, secret_key, region, clock, earlier, threads, api>>

\* if not result.is_truncated: break
\* continuation_token = result.next_continuation_token
Advance ==
    /\ call.op = "list_all_objects"
    /\ call.pc = "yield"
    /\ call.pos = Len(call.result.ret.objects)
    /\ call' = IF ~call.result.ret.is_truncated
               THEN [call EXCEPT !.pc = "done"]
               ELSE [call EXCEPT !.pc = "request",
                                 !.continuation_token =
                                     call.result.ret.next_continuation_token]
    /\ UNCHANGED <<access_key, secret_key, region, clock, earlier, threads, api>>

\* The generator is exhausted, or raised: the consumer's loop is over.
Exhausted ==
    /\ call.op = "list_all_objects"
    /\ call.pc \in {"done", "raised"}
    /\ Return

NextListing ==
    \/ ListAllObjects
    \/ ListPage
    \/ YieldObject
    \/ Advance
    \/ Exhausted

\* One consumer iterates list_all_objects to its end: it takes every object the
\* generator has to yield, and the generator runs on after each. No fairness is asked
\* of the exchanges with the server.
SpecListing == Init /\ [][NextListing]_vars /\ WF_vars(YieldObject) /\ WF_vars(Advance)

-----------------------------------------------------------------------------
(* Threads calling the one signer.  A call runs in steps: it reads the     *)
(* clock, builds the canonical request, signs, and returns; the steps of   *)
(* different threads interleave in any order.  frame[t] is the position of *)
(* thread t with the arguments of its call, the clock value the call read  *)
(* and, once it returned, its result; locals[f] are the local names of the *)
(* call whose frame is f.                                                  *)

\* Mutant: the local names kept on the instance, one set for all threads.
Frame_shared(t) == 1

\* The frame that holds the local names of the call thread t is in: its own.
Frame(t) == t

\* The calls the threads make.
ThreadCalls ==
    {[op |-> "sign_request", method |-> Str("GET"), url |-> Str("https://h:9/b/a b"),
      headers |-> << <<Str("host"), Str("h:9")>> >>, body |-> body, query_params |-> None,
      expires_in |-> 0, request_date |-> None] : body \in Bodies}
    \cup
    {[op |-> "presign_url", method |-> Str("GET"), url |-> Str("https://h:9/b/a b"),
      headers |-> <<>>, body |-> <<>>,
      query_params |-> Some(<< <<Str("a"), Str("v 1")>> >>),
      expires_in |-> 3600, request_date |-> request_date] : request_date \in RequestDates}

\* Thread t calls sign_request or presign_url: a new frame, no local name bound.
ThreadCall(t) ==
    /\ threads.frame[t].pc = "idle"
    /\ \E c \in ThreadCalls :
        threads' = [threads EXCEPT !.frame[t] = [pc |-> "start", args |-> c],
                                   !.locals[Frame(t)] = NoLocals]
    /\ UNCHANGED <<access_key, secret_key, region, clock, call, earlier, api>>

\* now = datetime.now(timezone.utc), or the request date given to presign_url
ThreadReadClock(t) ==
    /\ threads.frame[t].pc = "start"
    /\ LET a   == threads.frame[t].args
           now == IF a.op = "presign_url" /\ ~a.request_date.is_none
                  THEN a.request_date.value ELSE Now
       IN  threads' = [threads EXCEPT !.frame[t] = [pc |-> "dated", args |-> a, read |-> now],
                                      !.locals[Frame(t)].now = now]
    /\ UNCHANGED <<access_key, secret_key, region, clock, call, earlier, api>>

\* The statements from the required headers (or presign_params) to canonical_request.
ThreadCanonicalRequest(t) ==
    /\ threads.frame[t].pc = "dated"
    /\ LET a      == threads.frame[t].args
           l      == threads.locals[Frame(t)]
           qp     == IF a.query_params.is_none THEN <<>> ELSE a.query_params.value
           parsed == UrlParse(a.url)
           path   == IF parsed.path = <<>> THEN <<"/">> ELSE parsed.path
           hdrs   == RequiredHeaders(a.headers, AmzDate(l.now), a.body)
           ch     == _get_canonical_headers(hdrs)
           params == PresignParams(CredentialScope(DateStamp(l.now)), AmzDate(l.now),
                                   a.expires_in, qp)
       IN  threads' =
             [threads EXCEPT
                !.frame[t].pc = "canonical",
                !.locals[Frame(t)].headers = IF a.op = "sign_request" THEN hdrs ELSE params,
                !.locals[Frame(t)].signed_headers =
                    IF a.op = "sign_request" THEN ch.signed_headers ELSE Str("host"),
                !.locals[Frame(t)].canonical_request =
                    IF a.op = "sign_request"
                    THEN CanonicalRequest(a.method, _get_canonical_uri(path),
                                          _get_canonical_query_string(qp), ch.canonical_headers,
                                          ch.signed_headers, _sha256_hash(a.body))
                    ELSE CanonicalRequest(a.method, _get_canonical_uri(path),
                                          _get_canonical_query_string(params),
                                          Str("host:") \o parsed.netloc \o <<NL>>, Str("host"),
                                          Str("UNSIGNED-PAYLOAD"))]
    /\ UNCHANGED <<access_key, secret_key, region, clock, call, earlier, api>>

\* The statements from credential_scope to signature.
ThreadSign(t) ==
    /\ threads.frame[t].pc = "canonical"
    /\ LET l     == threads.locals[Frame(t)]
           scope == CredentialScope(DateStamp(l.now))
           sts   == StringToSign(AmzDate(l.now), scope, l.canonical_request)
       IN  threads' =
             [threads EXCEPT
                !.frame[t].pc = "signed",
                !.locals[Frame(t)].credential_scope = scope,
                !.locals[Frame(t)].signature =
                    Signature(_get_signature_key(DateStamp(l.now)), sts)]
    /\ UNCHANGED <<access_key, secret_key, region, clock, call, earlier, api>>

\* The return statement: the header map with Authorization, or the presigned URL.
ThreadReturn(t) ==
    /\ threads.frame[t].pc = "signed"
    /\ LET a      == threads.frame[t].args
           l      == threads.locals[Frame(t)]
           parsed == UrlParse(a.url)
           path   == IF parsed.path = <<>> THEN <<"/">> ELSE parsed.path
           ret    == IF a.op = "sign_request"
                     THEN DictSet(l.headers, Str("Authorization"),
                                  Authorization(l.credential_scope, l.signed_headers,
                                                l.signature))
                     ELSE parsed.scheme \o Str("://") \o parsed.netloc \o path \o <<"?">>
                            \o UrlEncode(DictSet(l.headers, Str("X-Amz-Signature"),
                                                 l.signature), {"-", "_", ".", "~"})
       IN  threads' = [threads EXCEPT !.frame[t] = [pc |-> "done", args |-> a,
                                                    read |-> threads.frame[t].read,
                                                    ret |-> ret]]
    /\ UNCHANGED <<access_key, secret_key, region, clock, call, earlier, api>>

\* The thread is done with the result.
ThreadForget(t) ==
    /\ threads.frame[t].pc = "done"
    /\ threads' = [threads EXCEPT !.frame[t] = IdleThread]
    /\ UNCHANGED <<access_key, secret_key, region, clock, call, earlier, api>>

NextThreads ==
    \/ Tick
    \/ \E t \in Threads : ThreadCall(t)
    \/ \E t \in Threads : ThreadReadClock(t)
    \/ \E t \in Threads : ThreadCanonicalRequest(t)
    \/ \E t \in Threads : ThreadSign(t)
    \/ \E t \in Threads : ThreadReturn(t)
    \/ \E t \in Threads : ThreadForget(t)

\* Two threads calling one signer, their steps interleaved.
SpecThreads == Init /\ [][NextThreads]_vars

-----------------------------------------------------------------------------
(* Reading a result back, as a server or a test would.                     *)

\* The text after the first occurrence of marker, up to the next character c (or the end).
Between(s, marker, c) ==
    LET rest == From(s, IndexOf(s, marker) + Len(marker))
        stop == Find(rest, c, 1)
    IN  IF stop = 0 THEN rest ELSE Upto(rest, stop - 1)

\* The lines of a block in which every line ends in a newline.
Lines(block) == LET parts == Split(block, NL) IN SubSeq(parts, 1, Len(parts) - 1)

\* The header names of a canonical headers block, line by line.
BlockNames(block) == [i \in 1..Len(Lines(block)) |-> SplitOnce(Lines(block)[i], ":").before]

\* The value a canonical headers block carries for a header name.
BlockValue(block, name) ==
    LET lines == Lines(block)
        i     == CHOOSE i \in 1..Len(lines) : StartsWith(lines[i], name \o <<":">>)
    IN  From(lines[i], Len(name) + 2)

\* Whitespace removed from both ends only, by position.
TrimEnds(v) ==
    LET solid == {i \in 1..Len(v) : v[i] \notin {" ", TAB, NL}}
    IN  IF solid = {} THEN <<>>
        ELSE SubSeq(v, CHOOSE i \in solid : \A j \in solid : i <= j,
                       CHOOSE i \in solid : \A j \in solid : j <= i)

\* The n-th smallest of a set of str.
Nth(names, n) == CHOOSE k \in names : Cardinality({j \in names : StrLess(j, k)}) = n - 1

\* Two dicts hold the same key/value pairs.
SamePairs(p, q) == {p[i] : i \in 1..Len(p)} = {q[i] : i \in 1..Len(q)}

\* The arguments of a call and the clock value it read.
Args(c) == [c EXCEPT !.loc = <<>>]

Count(s, c) == Cardinality({i \in 1..Len(s) : s[i] = c})

IsSigning == call.op \in {"sign_request", "presign_url"}

\* The date stamp a result carries in its credential scope.
ScopeDate ==
    IF call.op = "sign_request"
    THEN Between(DictGet(call.loc.ret, Str("Authorization")),
                 Str("Credential=") \o access_key \o <<"/">>, "/")
    ELSE Between(call.loc.ret, Str("X-Amz-Credential=") \o access_key \o Str("%2F"), "%")

-----------------------------------------------------------------------------
(* Claims.                                                                 *)

\* C1: for every caller-supplied header map, x-amz-date and x-amz-content-sha256 are in
\* the SignedHeaders list of the Authorization value that sign_request returns, and the
\* values the canonical headers block carries for them are the values returned to the
\* caller under those two names.
C1_InjectedHeadersAreHashed ==
    call.op = "sign_request" =>
        LET authorization == DictGet(call.loc.ret, Str("Authorization"))
            signed        == Split(Between(authorization, Str("SignedHeaders="), ","), ";")
        IN  \A name \in {Str("x-amz-date"), Str("x-amz-content-sha256")} :
                /\ \E i \in 1..Len(signed) : signed[i] = name
                /\ BlockValue(call.loc.canonical_headers, name) = DictGet(call.loc.ret, name)

\* C2: the signing key of sign_request and presign_url is
\* HMAC(HMAC(HMAC(HMAC("AWS4" + secret_key, date), region), "s3"), "aws4_request") in
\* that order, for the date stamp that the result carries in its credential scope, and
\* the signature of the result is computed with that key.
C2_SigningKeyChain ==
    IsSigning =>
        LET key == "hmac<hmac<hmac<hmac<AWS4" \o Flat(secret_key) \o "|" \o Flat(ScopeDate)
                     \o ">|" \o Flat(region) \o ">|s3>|aws4_request>"
        IN  /\ call.loc.signing_key = <<key>>
            /\ call.loc.signature
                 = <<"hex<hmac<" \o key \o "|" \o Flat(call.loc.string_to_sign) \o ">>">>
            /\ IF call.op = "sign_request"
               THEN Contains(DictGet(call.loc.ret, Str("Authorization")),
                             Str("Signature=") \o call.loc.signature)
               ELSE Contains(call.loc.ret, Str("X-Amz-Signature=") \o call.loc.signature)

\* C2 witness: a presigned URL whose key is derived from the injected request date, not
\* from the clock, and a request signed after the date has changed.
C2_Witness ==
    \/ /\ call.op = "presign_url"
       /\ ~call.request_date.is_none
       /\ ScopeDate = Str("20240615")
       /\ DateStamp(call.now) = Str("20240616")
    \/ /\ call.op = "sign_request"
       /\ ScopeDate = Str("20240616")

\* C3: the canonical request that sign_request and presign_url hash is the newline-join
\* of the upper-cased method, the canonical URI, the canonical query string, the canonical
\* headers block, the signed-headers list and the payload hash, in this order; the
\* string-to-sign is the newline-join of the algorithm identifier, the timestamp, the
\* scope date/region/s3/aws4_request and the hex SHA-256 of that canonical request, and
\* it is the message of the signature in the result.
C3_CanonicalRequestFields ==
    IsSigning =>
        LET canonical_request ==
                Upper(call.method) \o <<NL>> \o call.loc.canonical_uri \o <<NL>>
                    \o call.loc.canonical_query_string \o <<NL>>
                    \o call.loc.canonical_headers \o <<NL>>
                    \o call.loc.signed_headers \o <<NL>> \o call.loc.payload_hash
            string_to_sign ==
                Str("AWS4-HMAC-SHA256") \o <<NL>> \o call.loc.amz_date \o <<NL>>
                    \o ScopeDate \o <<"/">> \o region \o Str("/s3/aws4_request") \o <<NL>>
                    \o <<"hex<sha256<" \o Flat(canonical_request) \o ">>">>
        IN  /\ call.loc.canonical_request = canonical_request
            /\ call.loc.string_to_sign = string_to_sign
            /\ call.loc.signature
                 = <<"hex<hmac<" \o Flat(call.loc.signing_key) \o "|" \o Flat(string_to_sign) \o ">>">>

\* C3 witness: a signed request with a lower-case method, a body and query parameters.
C3_Witness ==
    /\ call.op = "sign_request"
    /\ call.method = Str("put")
    /\ call.body = Str("hi")
    /\ call.loc.canonical_query_string # <<>>
    /\ Len(call.headers) = MaxHeaders

\* C4: sign_request returns the header set with Authorization equal to
\* "AWS4-HMAC-SHA256 Credential={access_key}/{date}/{region}/s3/aws4_request,
\* SignedHeaders={signed_headers}, Signature={signature}" for the region the signer was
\* constructed with; the fields before and after the region are the same for every region.
C4_AuthorizationValue ==
    call.op = "sign_request" =>
        /\ DictHas(call.loc.ret, Str("Authorization"))
        /\ DictGet(call.loc.ret, Str("Authorization"))
             = Str("AWS4-HMAC-SHA256 Credential=") \o access_key \o <<"/">>
                 \o DateStamp(call.now) \o <<"/">> \o region
                 \o Str("/s3/aws4_request, SignedHeaders=")
                 \o Join(<<";">>, BlockNames(call.loc.canonical_headers))
                 \o Str(", Signature=") \o call.loc.signature
        /\ \A i \in 1..Len(call.headers) : call.headers[i][1] # Str("Authorization") =>
                \E j \in 1..Len(call.loc.ret) : call.loc.ret[j][1] = call.headers[i][1]

\* C4 witness: a request signed by a signer constructed with the region eu-west-1.
C4_Witness ==
    /\ call.op = "sign_request"
    /\ region = Str("eu-west-1")
    /\ Contains(DictGet(call.loc.ret, Str("Authorization")), Str("/eu-west-1/s3/aws4_request"))

C6_QueryOrderIndependent ==
    call.op = "_get_canonical_query_string" =>
        LET q     == call.query_params
            keys  == {q[i][1] : i \in 1..Len(q)}
            pairs == [n \in 1..Len(q) |->
                        QuotePlus(Nth(keys, n), {}) \o <<"=">>
                            \o QuotePlus(DictGet(q, Nth(keys, n)), {})]
        IN  /\ call.ret = Join(<<"&">>, pairs)
            /\ \A p \in ParamMaps :
                    SamePairs(p, q) => _get_canonical_query_string(p) = call.ret
            /\ q = <<>> => call.ret = <<>>
            /\ SamePairs(q, << <<Str("a"), Str("1")>>, <<Str("b"), Str("2")>> >>)
                    => call.ret = Str("a=1&b=2")

\* C6 witness: the mapping {b:2, a:1}, inserted in descending key order.
C6_Witness ==
    /\ call.op = "_get_canonical_query_string"
    /\ call.query_params = << <<Str("b"), Str("2")>>, <<Str("a"), Str("1")>> >>
    /\ call.ret = Str("a=1&b=2")

\* C7: in the canonical query string every key and value is percent-encoded with only
\* letters, digits and -_.~ left as they are, a space being encoded as %20 and never as +.
C7_SpaceIsPercent20 ==
    call.op = "_get_canonical_query_string" =>
        LET q     == call.query_params
            keys  == {q[i][1] : i \in 1..Len(q)}
            pairs == [n \in 1..Len(q) |->
                        Quote(Nth(keys, n), {}) \o <<"=">> \o Quote(DictGet(q, Nth(keys, n)), {})]
        IN  call.ret = Join(<<"&">>, pairs)

\* C8: the canonical headers block has, for each lower-cased header name in ascending
\* order, the line name:value and a newline, the value with the whitespace at its two
\* ends removed and the whitespace inside it kept (of names that differ only in letter
\* case the last value is taken); a non-empty block ends in a newline, and
\* {"Host": " x "} gives "host:x\n".
C8_CanonicalHeadersBlock ==
    call.op = "_get_canonical_headers" =>
        LET h       == call.headers
            names   == {Lower(h[i][1]) : i \in 1..Len(h)}
            last(n) == h[CHOOSE i \in 1..Len(h) :
                            /\ Lower(h[i][1]) = n
                            /\ \A j \in (i + 1)..Len(h) : Lower(h[j][1]) # n][2]
            block   == Concat([k \in 1..Cardinality(names) |->
                                 Nth(names, k) \o <<":">> \o TrimEnds(last(Nth(names, k)))
                                     \o <<NL>>])
        IN  /\ call.ret.canonical_headers = block
            /\ h # <<>> => block[Len(block)] = NL
            /\ h = << <<Str("Host"), Str(" x ")>> >> => call.ret.canonical_headers = Str("host:x\n")

\* C8 witness: two headers in descending name order, one value with whitespace at both
\* ends and one with whitespace inside.
C8_Witness ==
    /\ call.op = "_get_canonical_headers"
    /\ call.headers = << <<Str("Range"), Str("a  b")>>, <<Str("Host"), Str(" x ")>> >>
    /\ call.ret.canonical_headers = Str("host:x\nrange:a  b\n")

\* The canonical headers block and signed-headers list of the call, and the header map
\* they were built from.
HeaderResult ==
    IF call.op = "_get_canonical_headers"
    THEN [block |-> call.ret.canonical_headers, signed |-> call.ret.signed_headers,
          headers |-> call.headers]
    ELSE [block |-> call.loc.canonical_headers, signed |-> call.loc.signed_headers,
          headers |-> SelectSeq(call.loc.ret, LAMBDA e : e[1] # Str("Authorization"))]

\* C9: the signed-headers list is the ';'-join of exactly the names that have a line in
\* the canonical headers block, in the same order, each once, in ascending order, and
\* these are the lower-cased names of the header map.
C9_SignedHeadersMatchBlock ==
    call.op \in {"_get_canonical_headers", "sign_request"} =>
        LET r     == HeaderResult
            names == BlockNames(r.block)
        IN  /\ r.signed = Join(<<";">>, names)
            /\ \A i \in 1..(Len(names) - 1) : StrLess(names[i], names[i + 1])
            /\ {names[i] : i \in 1..Len(names)}
                 = {Lower(r.headers[i][1]) : i \in 1..Len(r.headers)}

\* C9 witness: a header map with two names that differ only in letter case.
C9_Witness ==
    /\ call.op = "_get_canonical_headers"
    /\ call.headers = << <<Str("host"), Str(" x ")>>, <<Str("Host"), Str("a  b")>> >>
    /\ call.ret.signed_headers = Str("host")

\* C10: the canonical URI has the '/' separators of the path unchanged and between them
\* each segment percent-encoded on its own: as many segments as the path, an empty last
\* segment kept empty, and "/" for a URL with an empty path.
C10_CanonicalUriSegments ==
    /\ call.op = "_get_canonical_uri" =>
          LET segments == Split(call.path, "/")
              encoded  == Split(call.ret, "/")
          IN  /\ Count(call.ret, "/") = Count(call.path, "/")
              /\ Len(encoded) = Len(segments)
              /\ \A i \in 1..Len(segments) : encoded[i] = Quote(segments[i], {})
              /\ (call.path # <<>> /\ call.path[Len(call.path)] = "/")
                    => encoded[Len(encoded)] = <<>>
    /\ (IsSigning /\ UrlParse(call.url).path = <<>>) => call.loc.canonical_uri = <<"/">>

\* C10 witness: a path with a space in a segment and a trailing slash, and a signed
\* request for a URL without a path.
C10_Witness ==
    \/ /\ call.op = "_get_canonical_uri"
       /\ call.path = Str("/b/a b/")
       /\ call.ret = Str("/b/a%20b/")
    \/ /\ call.op = "sign_request"
       /\ call.url = Str("http://h")
       /\ call.loc.canonical_uri = <<"/">>

\* The value of a hexadecimal digit, upper or lower case; 16 for any other character.
HexValue(c) ==
    IF IsDigit(c) THEN Ord(c) - 48
    ELSE IF c \in {"A", "B", "C", "D", "E", "F"} THEN Ord(c) - 55
    ELSE IF c \in {"a", "b", "c", "d", "e", "f"} THEN Ord(c) - 87
    ELSE 16

\* urllib.parse.unquote_plus(s), as a reader of the URL decodes a key or a value:
\* "+" is a space and "%XX" the character of code XX.
UnquotePlus(s) ==
    LET escape(i) == /\ i >= 1
                     /\ i + 2 <= Len(s)
                     /\ s[i] = "%"
                     /\ HexValue(s[i + 1]) < 16
                     /\ HexValue(s[i + 2]) < 16
    IN  Concat([i \in 1..Len(s) |->
                  IF escape(i - 1) \/ escape(i - 2) THEN <<>>
                  ELSE IF escape(i) THEN <<Chr(16 * HexValue(s[i + 1]) + HexValue(s[i + 2]))>>
                  ELSE IF s[i] = "+" THEN <<" ">>
                  ELSE <<s[i]>>])

\* urllib.parse.parse_qsl(query): the decoded <<key, value>> pairs in the order of the query.
ParseQsl(query) ==
    IF query = <<>> THEN <<>>
    ELSE LET fields == Split(query, "&")
         IN  [i \in 1..Len(fields) |->
                <<UnquotePlus(SplitOnce(fields[i], "=").before),
                  UnquotePlus(SplitOnce(fields[i], "=").after)>>]

\* The query string of a returned URL: what follows the first "?".
UrlQuery(u) == From(u, Find(u, "?", 1) + 1)

\* The six parameters of a presigned URL.
SixParams ==
    {Str("X-Amz-Algorithm"), Str("X-Amz-Credential"), Str("X-Amz-Date"), Str("X-Amz-Expires"),
     Str("X-Amz-SignedHeaders"), Str("X-Amz-Signature")}

\* The caller's extra parameters of a presign_url call.
Extras == IF call.query_params.is_none THEN <<>> ELSE call.query_params.value

UrlBase(u) ==
    LET q == Find(u, "?", 1)
        f == Find(u, "#", 1)
        stop == IF q = 0 THEN f ELSE IF f = 0 THEN q ELSE IF q < f THEN q ELSE f
    IN  IF stop = 0 THEN u ELSE Upto(u, stop - 1)

\* C12: presign_url returns the scheme, host and path of the url argument ("/" for an
\* empty path), then "?", then the query parameters, X-Amz-Signature and the caller's
\* extras included, in ascending order of their keys.
C12_PresignedQuerySorted ==
    call.op = "presign_url" =>
        LET base  == IF UrlParse(call.url).path = <<>> THEN UrlBase(call.url) \o <<"/">>
                     ELSE UrlBase(call.url)
            pairs == ParseQsl(UrlQuery(call.loc.ret))
        IN  /\ StartsWith(call.loc.ret, base \o <<"?">>)
            /\ \A i \in 1..(Len(pairs) - 1) : StrLess(pairs[i][1], pairs[i + 1][1])

\* The instant a presign_url call signs for: the injected request date, else the clock.
SigningInstant == IF call.request_date.is_none THEN call.now ELSE call.request_date.value

\* C13: the URL that presign_url returns contains X-Amz-Date=<timestamp of the request
\* date> and X-Amz-Credential=<access_key>/<date>/<region>/s3/aws4_request; for the access
\* key test-access, the region us-east-1, expires_in 3600 and the request date
\* 2024-06-15T12:00:00Z these are X-Amz-Date=20240615T120000Z and
\* X-Amz-Credential=test-access/20240615/us-east-1/s3/aws4_request.
C13_PresignedDateAndCredential ==
    call.op = "presign_url" =>
        /\ Contains(call.loc.ret, Str("X-Amz-Date=") \o AmzDate(SigningInstant))
        /\ Contains(call.loc.ret,
                    Str("X-Amz-Credential=") \o access_key \o <<"/">> \o DateStamp(SigningInstant)
                        \o <<"/">> \o region \o Str("/s3/aws4_request"))
        /\ (/\ access_key = Str("test-access")
            /\ region = Str("us-east-1")
            /\ call.expires_in = 3600
            /\ call.request_date
                 = Some(datetime(2024, 6, 15, 12, 0, 0, "UTC")))
              => /\ Contains(call.loc.ret, Str("X-Amz-Date=20240615T120000Z"))
                 /\ Contains(call.loc.ret,
                             Str("X-Amz-Credential=test-access/20240615/us-east-1/s3/aws4_request"))

\* The keys of a query string, decoded.
QueryKeys(query) == LET pairs == ParseQsl(query) IN {pairs[i][1] : i \in 1..Len(pairs)}

\* C14: the canonical request that presign_url signs ends in the payload hash
\* UNSIGNED-PAYLOAD, its canonical headers block is the one line host:<host of the url>
\* and its signed-headers list is host, as X-Amz-SignedHeaders in the URL says; its
\* canonical query string has the keys of the returned URL except X-Amz-Signature, which
\* is not among them.
C14_PresignCanonicalRequest ==
    call.op = "presign_url" =>
        LET lines == Split(call.loc.canonical_request, NL)
            host  == Between(call.url, Str("://"), "/")
            pairs == ParseQsl(UrlQuery(call.loc.ret))
        IN  /\ Len(lines) = 7
            /\ lines[4] = Str("host:") \o host
            /\ lines[5] = <<>>
            /\ lines[6] = Str("host")
            /\ lines[7] = Str("UNSIGNED-PAYLOAD")
            /\ \E i \in 1..Len(pairs) : pairs[i] = <<Str("X-Amz-SignedHeaders"), Str("host")>>
            /\ Str("X-Amz-Signature") \notin QueryKeys(lines[3])
            /\ QueryKeys(lines[3]) = {pairs[i][1] : i \in 1..Len(pairs)} \ {Str("X-Amz-Signature")}
            /\ Contains(call.loc.ret, Str("&X-Amz-Signature=") \o call.loc.signature)

\* The call returned a value to its caller (it did not raise).
Returned == "ret" \in DOMAIN call.loc

\* C15: sign_request called with a header map that has no host entry, in any letter
\* case, fails: it returns no header map and so no Authorization value.
C15_MissingHostIsFatal ==
    (/\ call.op = "sign_request"
     /\ \A i \in 1..Len(call.headers) : Lower(call.headers[i][1]) # Str("host"))
        => ~Returned

\* C16: presign_url called with a zero or negative expires_in fails: it returns no URL,
\* and no returned URL carries an X-Amz-Expires that is not positive.
C16_InvalidExpiryIsFatal ==
    call.op = "presign_url" =>
        /\ call.expires_in <= 0 => ~Returned
        /\ Returned =>
              LET pairs == ParseQsl(UrlQuery(call.loc.ret))
              IN  \A i \in 1..Len(pairs) :
                      pairs[i][1] = Str("X-Amz-Expires") =>
                          /\ pairs[i][2] # Str("0")
                          /\ ~StartsWith(pairs[i][2], Str("-"))

\* The hex SHA-256 of a byte string as a server computes it.
HexSha256(data) ==
    IF data = <<>> THEN <<"e3b0c44298fc1c149afbf4c8996fb92427ae41e4649b934ca495991b7852b855">>
    ELSE <<"hex<sha256<" \o Flat(data) \o ">>">>

\* C17: the x-amz-content-sha256 header that sign_request returns is the hex SHA-256 of
\* the body, and the last field of the canonical request, the payload hash, is that same
\* value, for every body, the empty one included.
C17_ContentSha256IsPayloadHash ==
    call.op = "sign_request" =>
        LET lines == Split(call.loc.canonical_request, NL)
        IN  /\ DictHas(call.loc.ret, Str("x-amz-content-sha256"))
            /\ DictGet(call.loc.ret, Str("x-amz-content-sha256")) = HexSha256(call.body)
            /\ lines[Len(lines)] = HexSha256(call.body)

\* C17 witness: a request signed with a body and two caller headers.
C17_Witness ==
    /\ call.op = "sign_request"
    /\ call.body = Str("hi")
    /\ Len(call.headers) = 2
    /\ call.loc.payload_hash = <<"hex<sha256<hi>>">>

\* C18 as stated: the empty body, given as bytes or as text, has the payload hash
\* e3b0c44298fc1c149afbf4c8996fb92427ae41e4649b934ca495991b7852b855 by sign_request, by
\* S3Api.put_object and by helpers.sha256_hash.
C18_EmptyPayloadAnyType ==
    (call.op = "payload_hash" /\ call.data.data = <<>>)
        => (Returned /\ call.loc.ret = HexSha256(<<>>))

\* C18 amended: the empty body has that payload hash by sign_request when given as bytes,
\* and by S3Api.put_object and helpers.sha256_hash when given as bytes or as text; the
\* header sign_request returns for an empty body carries it.
C18_EmptyPayloadHash ==
    /\ (/\ call.op = "payload_hash"
        /\ call.data.data = <<>>
        /\ (call.via = "sign_request" => call.data.type = "bytes"))
          => (Returned /\ call.loc.ret = HexSha256(<<>>))
    /\ (call.op = "sign_request" /\ call.body = <<>>)
          => /\ call.loc.payload_hash = HexSha256(<<>>)
             /\ DictGet(call.loc.ret, Str("x-amz-content-sha256")) = HexSha256(<<>>)

\* C18 witness: the empty text hashed by helpers.sha256_hash.
C18_Witness ==
    /\ call.op = "payload_hash"
    /\ call.via = "sha256_hash"
    /\ call.data = Text(<<>>)
    /\ Returned

AloneResult(t) ==
    LET f == threads.frame[t]
        a == f.args
    IN  IF a.op = "sign_request"
        THEN sign_request(a.method, a.url, a.headers, a.body, a.query_params, f.read).ret
        ELSE presign_url(a.method, a.url, a.expires_in, a.query_params, a.request_date,
                         f.read).ret

\* C20: whatever the interleaving of the steps of the threads calling one signer, a call
\* that has returned has returned the result of the same call run alone with the same
\* arguments and clock value.
C20_ThreadSafe ==
    \A t \in Threads : threads.frame[t].pc = "done" => threads.frame[t].ret = AloneResult(t)

\* C20 witness: thread 2 has read the clock after thread 1 and has returned while thread
\* 1 has not yet.
C20_Witness ==
    /\ threads.frame[1].pc = "signed"
    /\ threads.frame[1].read = Instants[1]
    /\ threads.frame[1].args.op = "sign_request"
    /\ threads.frame[2].pc = "done"
    /\ threads.frame[2].read = Instants[2]
    /\ threads.frame[2].args.op = "sign_request"

\* The value of the parameter k in the decoded <<key, value>> pairs of a query string.
QueryValue(pairs, k) == pairs[CHOOSE i \in 1..Len(pairs) : pairs[i][1] = k][2]

\* C27: whatever query_params mapping presign_url is given, the returned URL has
\* X-Amz-Expires equal to str(expires_in), X-Amz-Algorithm equal to AWS4-HMAC-SHA256,
\* X-Amz-SignedHeaders equal to host, X-Amz-Credential and X-Amz-Date equal to the values
\* the signer computes, and X-Amz-Signature equal to the signature of a canonical query
\* string without X-Amz-Signature.
C27_ExtrasCannotAlterPresignParams ==
    call.op = "presign_url" =>
        LET pairs == ParseQsl(UrlQuery(call.loc.ret))
            scope == DateStamp(SigningInstant) \o <<"/">> \o region \o Str("/s3/aws4_request")
        IN  /\ QueryValue(pairs, Str("X-Amz-Expires")) = IntStr(call.expires_in)
            /\ QueryValue(pairs, Str("X-Amz-Algorithm")) = Str("AWS4-HMAC-SHA256")
            /\ QueryValue(pairs, Str("X-Amz-SignedHeaders")) = Str("host")
            /\ QueryValue(pairs, Str("X-Amz-Credential")) = access_key \o <<"/">> \o scope
            /\ QueryValue(pairs, Str("X-Amz-Date")) = AmzDate(SigningInstant)
            /\ QueryValue(pairs, Str("X-Amz-Signature")) = call.loc.signature
            /\ Str("X-Amz-Signature")
                 \notin QueryKeys(Split(call.loc.canonical_request, NL)[3])

\* C29: for a url argument with a query string or a fragment embedded in it, sign_request
\* and presign_url compute what they compute for the url without them: the signed query
\* parameters are those of query_params (and the X-Amz-* set when presigning), and the URL
\* that presign_url returns is the scheme, host and path of the url argument followed by
\* the one "?" and the presign parameters, with no "#".
C29_UrlQueryAndFragmentUnused ==
    (IsSigning /\ call.url # UrlBase(call.url)) =>
        LET signed == ParseQsl(Split(call.loc.canonical_request, NL)[3])
        IN  /\ call.op = "sign_request" =>
                /\ call.loc = sign_request(call.method, UrlBase(call.url), call.headers,
                                           call.body, call.query_params, call.now)
                /\ SamePairs(signed, Extras)
            /\ call.op = "presign_url" =>
                /\ call.loc = presign_url(call.method, UrlBase(call.url), call.expires_in,
                                          call.query_params, call.request_date, call.now)
                /\ {signed[i][1] : i \in 1..Len(signed)}
                     = (SixParams \ {Str("X-Amz-Signature")})
                           \cup {Extras[i][1] : i \in 1..Len(Extras)}
                /\ StartsWith(call.loc.ret, UrlBase(call.url) \o <<"?">>)
                /\ Count(call.loc.ret, "?") = 1
                /\ Count(call.loc.ret, "#") = 0

\* C29 witness: presign_url was called with a url that has a query string and a fragment
\* and with an extra parameter, and returned a URL without the url's query string.
C29_Witness ==
    /\ call.op = "presign_url"
    /\ call.url = Str("http://h/b/k/?v=1#f")
    /\ Extras = << <<Str("a"), Str("v 1")>> >>
    /\ StartsWith(call.loc.ret, Str("http://h/b/k/?X-Amz-Algorithm="))
    /\ ~Contains(call.loc.ret, Str("v=1"))

\* The instant that a call of the signer signs for, on the UTC calendar and clock.
UtcInstant == AsUtc(IF call.op = "presign_url" THEN SigningInstant ELSE call.now)

\* C26: the timestamp in the string to sign is the UTC time of the signing instant as
\* YYYYMMDDThhmmssZ, and the date of the credential scope and of the key derivation is
\* the UTC date of that instant, for sign_request's clock reading and for presign_url
\* with any request date, one with a non-UTC offset or with no timezone included.
C26_TimestampIsUtc ==
    IsSigning =>
        LET lines == Split(call.loc.string_to_sign, NL)
            stamp == lines[2]
        IN  /\ Len(stamp) = 16
            /\ stamp[9] = "T"
            /\ stamp[16] = "Z"
            /\ \A i \in (1..8) \cup (10..15) : IsDigit(stamp[i])
            /\ stamp = AmzDate(UtcInstant)
            /\ StartsWith(lines[3], DateStamp(UtcInstant) \o <<"/">>)
            /\ call.loc.signing_key = _get_signature_key(DateStamp(UtcInstant))

-----------------------------------------------------------------------------
(* S3Api.request and the exception for each error response.               *)

\* S3Api.request was called and the server answered with a response.
RequestAnswered == call.op = "request" /\ call.outcome.kind = "response"

\* The status of that response, and the code and message read from its body.
AnsweredStatus == call.outcome.response.status_code

AnsweredCode == parse_error(call.outcome.response.content).code

AnsweredMessage == parse_error(call.outcome.response.content).message

\* The request named a bucket and no key.
BucketOnly == Truthy(call.args.bucket) /\ ~Truthy(call.args.key)

\* A 409 whose code names one of the bucket conflicts.
BucketConflict ==
    /\ AnsweredStatus = 409
    /\ AnsweredCode \in {Str("BucketAlreadyExists"), Str("BucketAlreadyOwnedByYou"),
                         Str("BucketNotEmpty")}

\* C25 (as amended): S3Api.request returns the response when its status is below 400 and
\* raises a BuckerioError otherwise. A 404 raises BucketNotFoundError when the code is
\* NoSuchBucket or the request names a bucket and no key, and otherwise
\* ObjectNotFoundError when the code is NoSuchKey or the request names a key; a 403
\* raises AccessDeniedError for code AccessDenied and InvalidCredentialsError otherwise;
\* a 409 raises BucketAlreadyExistsError for code BucketAlreadyExists or
\* BucketAlreadyOwnedByYou and BucketNotEmptyError for code BucketNotEmpty; a status of
\* 500 or above raises ServerError; every other case (a 404 with no bucket, no key and
\* neither code included) raises the base BuckerioError with the parsed message and code.
C25_ErrorMapping ==
    RequestAnswered =>
        LET r == call.result
            bucket_missing == AnsweredCode = Str("NoSuchBucket") \/ BucketOnly
            key_missing == AnsweredCode = Str("NoSuchKey") \/ Truthy(call.args.key)
        IN  /\ AnsweredStatus < 400 => r = [ret |-> call.outcome.response]
            /\ AnsweredStatus >= 400 => Raised(r) /\ r.raised \in BuckerioErrors
            /\ AnsweredStatus = 404 /\ bucket_missing => r.raised = "BucketNotFoundError"
            /\ AnsweredStatus = 404 /\ ~bucket_missing /\ key_missing =>
                   r.raised = "ObjectNotFoundError"
            /\ AnsweredStatus = 403 /\ AnsweredCode = Str("AccessDenied") =>
                   r.raised = "AccessDeniedError"
            /\ AnsweredStatus = 403 /\ AnsweredCode # Str("AccessDenied") =>
                   r.raised = "InvalidCredentialsError"
            /\ AnsweredStatus = 409 /\ AnsweredCode \in {Str("BucketAlreadyExists"),
                                                         Str("BucketAlreadyOwnedByYou")} =>
                   r.raised = "BucketAlreadyExistsError"
            /\ AnsweredStatus = 409 /\ AnsweredCode = Str("BucketNotEmpty") =>
                   r.raised = "BucketNotEmptyError"
            /\ AnsweredStatus >= 500 => r.raised = "ServerError"
            /\ /\ AnsweredStatus \in 400..499
               /\ AnsweredStatus # 403
               /\ ~(AnsweredStatus = 404 /\ (bucket_missing \/ key_missing))
               /\ ~BucketConflict
               => r = BuckerioError(AnsweredMessage, AnsweredCode)

\* C25 witness: a 404 for a request that names neither a bucket nor a key, with code
\* NoSuchKey, raised ObjectNotFoundError.
C25_Witness ==
    /\ RequestAnswered
    /\ AnsweredStatus = 404
    /\ call.args.bucket.is_none
    /\ call.args.key.is_none
    /\ AnsweredCode = Str("NoSuchKey")
    /\ call.result = ObjectNotFoundError(Str("unknown"), Str("unknown"))

\* C25 (as stated): every error response outside the listed cases (a 404 on a
\* bucket-only request or on a request with a key, a 403, a 409 with one of the three
\* bucket codes, a status of 500 or above) raises the base BuckerioError.
C25_RemainingCasesRaiseBase ==
    /\ RequestAnswered
    /\ AnsweredStatus \in 400..499
    /\ AnsweredStatus # 403
    /\ ~(AnsweredStatus = 404 /\ (BucketOnly \/ Truthy(call.args.key)))
    /\ ~BucketConflict
    => call.result.raised = "BuckerioError"

-----------------------------------------------------------------------------
(* The HTTP client of one S3Api.                                           *)

\* The S3Api holds no client and none is open, or holds the one client that is open.
OneClient ==
    /\ api.open = (IF api._client.is_none THEN {} ELSE {api._client.value})
    /\ Cardinality(api.open) <= 1
    /\ api.open \subseteq 1..api.created

\* A request creates a client only when none is held and leaves the held one in place.
RequestStep ==
    call'.op = "request" /\ call.op = "none" =>
        IF api._client.is_none
        THEN /\ api'.created = api.created + 1
             /\ api'._client = Some(api'.created)
             /\ api'.open = {api'.created}
        ELSE api' = api

\* close() closes the held client and forgets it, and does nothing when none is held.
CloseStep ==
    call'.op = "close" /\ call.op = "none" =>
        /\ api'._client.is_none
        /\ api'.open = {}
        /\ api'.created = api.created
        /\ api._client.is_none => api' = api

\* C30: for every sequence of requests and close() calls on one S3Api, at most one HTTP
\* client is open at a time: it is created by the first request, reused by the later
\* ones, closed and discarded by close(), which does nothing when no client is open, and
\* a request after close() creates a fresh client, so after a close() no client that was
\* created is open.
C30_OneClientAtATime == []OneClient /\ [][RequestStep /\ CloseStep]_vars

\* C30 witness: a request made after close() runs on the second client, the only one
\* open.
C30_Witness ==
    /\ call.op = "request"
    /\ api.created = 2
    /\ api._client = Some(2)
    /\ api.open = {2}

-----------------------------------------------------------------------------
(* bucket_exists and object_exists.                                        *)

\* An existence check was made.
ExistenceChecked == call.op \in {"bucket_exists", "object_exists"}

\* The server reported the resource as absent.
ReportedAbsent == call.outcome.kind = "response" /\ call.outcome.response.status_code = 404

\* C21: bucket_exists and object_exists return False only when the server reports the
\* resource as absent; a connection failure, a timeout, a 403 and a 5xx response are not
\* returned as False.
C21_FalseOnlyWhenAbsent ==
    ExistenceChecked /\ call.result = [ret |-> FALSE] => ReportedAbsent

-----------------------------------------------------------------------------
(* create_bucket and the bucket name.                                      *)

\* C22: create_bucket raises InvalidBucketNameError and sends no request for every name
\* that is shorter than 3 or longer than 63 characters, contains a character outside
\* a-z 0-9 . -, does not start or end with a lower-case letter or digit, contains "..",
\* or is formatted as an IPv4 address; for every other name it sends exactly one PUT for
\* that bucket.
C22_RejectedNamesSendNothing ==
    call.op = "create_bucket" =>
        LET name == call.args.bucket
            parts == Split(name, ".")
            ipv4 == /\ Len(parts) = 4
                    /\ \A k \in 1..4 : /\ Len(parts[k]) \in 1..3
                                       /\ \A i \in 1..Len(parts[k]) : IsDigit(parts[k][i])
            rejected ==
                \/ Len(name) < 3
                \/ Len(name) > 63
                \/ \E i \in 1..Len(name) : ~IsNameChar(name[i])
                \/ ~IsLowerOrDigit(name[1])
                \/ ~IsLowerOrDigit(name[Len(name)])
                \/ Contains(name, Str(".."))
                \/ ipv4
        IN  IF rejected
            THEN /\ Raised(call.result)
                 /\ call.result.raised = "InvalidBucketNameError"
                 /\ call.sent = <<>>
            ELSE /\ Len(call.sent) = 1
                 /\ call.sent[1].method = Str("PUT")
                 /\ call.sent[1].url = api.endpoint \o <<"/">> \o name

-----------------------------------------------------------------------------
(* Presigned URLs of the Buckerio client.                                  *)

\* presign_get or presign_put returned a PresignedUrlResult.
Presigned == call.op \in {"presign_get", "presign_put"}

\* The X-Amz-Expires parameter of the URL of the result.
UrlExpires == QueryValue(ParseQsl(UrlQuery(call.result.ret.url)), Str("X-Amz-Expires"))

\* C23: for every presigned-URL result of the Buckerio client, expires_in is the number
\* of seconds in the X-Amz-Expires parameter of the URL, and the path of the URL names
\* the requested bucket and key.
C23_PresignedResultMatchesUrl ==
    Presigned =>
        /\ UrlExpires = IntStr(call.result.ret.expires_in)
        /\ call.result.ret.expires_in = call.args.expires_in
        /\ UrlParse(call.result.ret.url).path
             = <<"/">> \o call.args.bucket \o <<"/">> \o normalize_key(call.args.key)

-----------------------------------------------------------------------------
(* Object-level operations and the bucket URL.                             *)

\* An object-level operation of the client sent its request.
ObjectRequested ==
    call.op \in {"put_object", "get_object", "delete_object", "head_object", "object_exists"}

\* The URL of the bucket that the call names.
BucketUrl == api.endpoint \o <<"/">> \o call.args.bucket

\* C28: every object-level operation of the Buckerio client sends its request for
\* endpoint/bucket/key with a non-empty key part and never for the bucket URL itself, for
\* any key, "" and keys made only of "/" included: delete_object sends no DELETE for the
\* bucket and put_object no PUT for the bucket.
C28_NeverTheBucketUrl ==
    ObjectRequested =>
        /\ Len(call.sent) = 1
        /\ call.sent[1].url # BucketUrl
        /\ StartsWith(call.sent[1].url, BucketUrl \o <<"/">>)
        /\ Len(call.sent[1].url) > Len(BucketUrl) + 1

-----------------------------------------------------------------------------
(* list_all_objects and the pages it walks.                                *)

RECURSIVE AllObjects(_)
\* The objects of the pages, in page order.
AllObjects(pages) ==
    IF pages = <<>> THEN <<>> ELSE pages[1].objects \o AllObjects(Tail(pages))

\* The continuation token a request carries: None when it has no such parameter.
TokenSent(request) ==
    IF DictHas(request.params.value, Str("continuation-token"))
    THEN Some(DictGet(request.params.value, Str("continuation-token")))
    ELSE None

\* What the generator has sent and yielded agrees with the pages it has received.
PagesWalked ==
    call.op = "list_all_objects" =>
        LET n == Len(call.pages)
        IN  /\ Len(call.sent) = (IF call.pc = "raised" THEN n + 1 ELSE n)
            /\ \A i \in 1..Len(call.sent) :
                  /\ call.sent[i].method = Str("GET")
                  /\ call.sent[i].url = api.endpoint \o <<"/">> \o call.args.bucket
                  /\ TokenSent(call.sent[i])
                       = (IF i = 1 THEN None ELSE call.pages[i - 1].next_continuation_token)
            /\ \A i \in 1..(n - 1) : call.pages[i].is_truncated
            /\ call.pc = "done" => n >= 1 /\ ~call.pages[n].is_truncated
            /\ call.pc = "request" => n = 0 \/ call.pages[n].is_truncated
            /\ call.yielded =
                 (IF call.pc = "yield"
                  THEN AllObjects(SubSeq(call.pages, 1, n - 1))
                         \o SubSeq(call.pages[n].objects, 1, call.pos)
                  ELSE AllObjects(call.pages))

\* The generator holds a page that is not truncated.
LastPageReceived ==
    /\ call.op = "list_all_objects"
    /\ call.pc = "yield"
    /\ ~call.result.ret.is_truncated

\* The generator has returned.
IterationOver == call.op = "list_all_objects" /\ call.pc = "done"

\* C24: list_all_objects yields every object of every page exactly once, in page order:
\* its first request carries no continuation token, each following request carries the
\* next_continuation_token of the page before it, no request follows the first page
\* whose is_truncated is false, and once the server has returned such a page the
\* iteration ends.
C24_WalksEveryPageOnce == []PagesWalked /\ (LastPageReceived ~> IterationOver)

\* C24 witness: the iteration ended after two pages, the second requested with the token
\* of the first, having yielded the two objects of each.
C24_Witness ==
    /\ IterationOver
    /\ Len(call.pages) = 2
    /\ call.pages[1].next_continuation_token = Some(Str("t1"))
    /\ TokenSent(call.sent[2]) = Some(Str("t1"))
    /\ Len(call.yielded) = 4

====
